---- MODULE Spec2Model ----
(***************************************************************************)
(* rox_vm: a single-pass bytecode compiler and stack VM.                   *)
(*                                                                         *)
(* The model follows the pipeline of main.rs `run`: a parsed program (an   *)
(* AST as ast.rs builds it) is compiled declaration by declaration         *)
(* (compiler.rs) into a chunk of bytes (chunk.rs), and the chunk is        *)
(* executed one instruction per step by the VM (vm.rs).  The VM is also    *)
(* run on functions assembled by hand (VM::new is public and takes any     *)
(* Function), which is the only way to reach CALL: Compiler::expression    *)
(* stops at todo!() on every call expression.                              *)
(* The scanner (scanner.rs), the first stage of `run`, is modelled on its  *)
(* own, on short sources, and so are Chunk::write and Compiler::block.     *)
(*                                                                         *)
(* Numbers are f64 in the source.  Here a Number is NaN, an infinity or a  *)
(* signed rational (sign bit, numerator, denominator), so signed zeros,    *)
(* division by zero and NaN behave as IEEE-754 says; rounding is not       *)
(* modelled (finite results are exact).                                    *)
(***************************************************************************)
EXTENDS Integers, Sequences, FiniteSets, TLC

(***************************************************************************)
(* Value (value.rs)                                                        *)
(***************************************************************************)
RECURSIVE GCD(_, _)
GCD(a, b) == IF b = 0 THEN a ELSE GCD(b, a % b)

Fin(neg, n, d) ==
    LET g == GCD(n, d)
    IN  [t |-> "Number", k |-> "fin", neg |-> neg, n |-> n \div g, d |-> d \div g]

NaN == [t |-> "Number", k |-> "nan", neg |-> FALSE, n |-> 0, d |-> 1]

Inf(neg) == [t |-> "Number", k |-> "inf", neg |-> neg, n |-> 1, d |-> 1]

\* the f64 of a non-negative integer literal
Number(i) == Fin(FALSE, i, 1)

Boolean(b) == [t |-> "Boolean", b |-> b]

Str(s) == [t |-> "Str", s |-> s]

Function(name, arity, chunk) ==
    [t |-> "Function", arity |-> arity, name |-> name, chunk |-> chunk]

get_clock_native_func ==
    [t |-> "NativeFunction", arity |-> 0, name |-> "clock", impl |-> "NativeClock"]

IsZero(x) == x.k = "fin" /\ x.n = 0

\* the signed numerator of a finite number
SNum(x) == IF x.neg THEN 0 - x.n ELSE x.n

\* a finite f64 from a signed numerator; a zero result takes the sign zneg
FromSigned(sn, d, zneg) ==
    IF sn = 0 THEN Fin(zneg, 0, 1)
    ELSE IF sn < 0 THEN Fin(TRUE, 0 - sn, d) ELSE Fin(FALSE, sn, d)

\* f64 negation: flips the sign bit
NumNeg(x) == IF x.k = "nan" THEN NaN ELSE [x EXCEPT !.neg = ~x.neg]

\* f64 addition
NumAdd(x, y) ==
    IF x.k = "nan" \/ y.k = "nan" THEN NaN
    ELSE IF x.k = "inf" /\ y.k = "inf" THEN (IF x.neg = y.neg THEN x ELSE NaN)
    ELSE IF x.k = "inf" THEN x
    ELSE IF y.k = "inf" THEN y
    ELSE FromSigned(SNum(x) * y.d + SNum(y) * x.d, x.d * y.d, x.neg /\ y.neg)

\* f64 subtraction
NumSub(x, y) == NumAdd(x, NumNeg(y))

\* f64 multiplication
NumMul(x, y) ==
    IF x.k = "nan" \/ y.k = "nan" THEN NaN
    ELSE IF (x.k = "inf" /\ IsZero(y)) \/ (y.k = "inf" /\ IsZero(x)) THEN NaN
    ELSE IF x.k = "inf" \/ y.k = "inf" THEN Inf(x.neg # y.neg)
    ELSE Fin(x.neg # y.neg, x.n * y.n, x.d * y.d)

\* f64 division: no trap, x/0 is an infinity and 0/0 is NaN
NumDiv(x, y) ==
    IF x.k = "nan" \/ y.k = "nan" THEN NaN
    ELSE IF x.k = "inf" /\ y.k = "inf" THEN NaN
    ELSE IF IsZero(x) /\ IsZero(y) THEN NaN
    ELSE IF x.k = "inf" \/ IsZero(y) THEN Inf(x.neg # y.neg)
    ELSE IF y.k = "inf" THEN Fin(x.neg # y.neg, 0, 1)
    ELSE Fin(x.neg # y.neg, x.n * y.d, x.d * y.n)

\* f64 `<`: false whenever an operand is NaN
NumLt(x, y) ==
    IF x.k = "nan" \/ y.k = "nan" THEN FALSE
    ELSE IF x.k = "inf" THEN x.neg /\ ~(y.k = "inf" /\ y.neg)
    ELSE IF y.k = "inf" THEN ~y.neg
    ELSE SNum(x) * y.d < SNum(y) * x.d

\* f64 `==`: NaN equals nothing, the two zeros are equal
NumEq(x, y) ==
    IF x.k = "nan" \/ y.k = "nan" THEN FALSE
    ELSE IF IsZero(x) /\ IsZero(y) THEN TRUE
    ELSE x = y

NumLe(x, y) == NumLt(x, y) \/ NumEq(x, y)

NumGt(x, y) == NumLt(y, x)

NumGe(x, y) == NumLt(y, x) \/ NumEq(x, y)

(***************************************************************************)
(* Chunk, OpCode and LineInfo (chunk.rs)                                   *)
(***************************************************************************)
\* the variants of enum OpCode in declaration order: a variant's byte is its
\* position, counted from 0
OpCodeNames ==
    << "OpConstant", "OpAdd", "OpSubtract", "OpMultiply", "OpDivide", "OpNegate",
       "OpPrint", "OpReturn", "OpTrue", "OpFalse", "OpNot", "OpEqualEqual",
       "OpBangEqual", "OpLess", "OpLessEqual", "OpGreater", "OpGreaterEqual",
       "OpDefineGlobal", "OpGetGlobal", "OpSetGlobal", "OpPop", "OpPopN",
       "OpGetLocal", "OpSetLocal", "OpJump", "OpJumpIfTrue", "OpJumpIfFalse",
       "OpLoop", "OpCall", "OpEof" >>

\* `OpCode::X as u8`
Op(name) == (CHOOSE i \in 1..Len(OpCodeNames) : OpCodeNames[i] = name) - 1

\* TryFrom<u8> for OpCode: the variant's name, "" for a byte that is no opcode
OpCodeTryFrom(v) == IF v + 1 \in 1..Len(OpCodeNames) THEN OpCodeNames[v + 1] ELSE ""

OpConstant == Op("OpConstant")
OpAdd == Op("OpAdd")
OpSubtract == Op("OpSubtract")
OpMultiply == Op("OpMultiply")
OpDivide == Op("OpDivide")
OpNegate == Op("OpNegate")
OpPrint == Op("OpPrint")
OpReturn == Op("OpReturn")
OpTrue == Op("OpTrue")
OpFalse == Op("OpFalse")
OpNot == Op("OpNot")
OpEqualEqual == Op("OpEqualEqual")
OpBangEqual == Op("OpBangEqual")
OpLess == Op("OpLess")
OpLessEqual == Op("OpLessEqual")
OpGreater == Op("OpGreater")
OpGreaterEqual == Op("OpGreaterEqual")
OpDefineGlobal == Op("OpDefineGlobal")
OpGetGlobal == Op("OpGetGlobal")
OpSetGlobal == Op("OpSetGlobal")
OpPop == Op("OpPop")
OpPopN == Op("OpPopN")
OpGetLocal == Op("OpGetLocal")
OpSetLocal == Op("OpSetLocal")
OpJump == Op("OpJump")
OpJumpIfTrue == Op("OpJumpIfTrue")
OpJumpIfFalse == Op("OpJumpIfFalse")
OpLoop == Op("OpLoop")
OpCall == Op("OpCall")
OpEof == Op("OpEof")

\* LineInfoAdd storing an entry whenever the line changes
LineInfoAddOnChange(info, offset, lineno) ==
    IF info = <<>> THEN << <<offset, lineno>> >>
    ELSE IF lineno # info[Len(info)][2] THEN Append(info, <<offset, lineno>>)
    ELSE info

\* LineInfo::add: an entry is stored only when the line grows
LineInfoAdd(info, offset, lineno) ==
    IF info = <<>> THEN << <<offset, lineno>> >>
    ELSE IF lineno > info[Len(info)][2] THEN Append(info, <<offset, lineno>>)
    ELSE info

\* LineInfo::get_lineno, the loop from entry `index` (1-based) on; <<>> is None
RECURSIVE LineInfoScan(_, _, _)
LineInfoScan(info, offset, index) ==
    IF index > Len(info)
    THEN (IF info = <<>> THEN <<>> ELSE << info[Len(info)][2] >>)
    ELSE IF offset = info[index][1] THEN << info[index][2] >>
    ELSE IF offset < info[index][1]
         THEN (IF index > 1 THEN << info[index - 1][2] >> ELSE <<>>)
    ELSE LineInfoScan(info, offset, index + 1)

\* LineInfoGetLineno answering with the last entry whatever the offset
LineInfoGetLinenoLast(info, offset) ==
    IF info = <<>> THEN <<>> ELSE << info[Len(info)][2] >>

LineInfoGetLineno(info, offset) == LineInfoScan(info, offset, 1)

ChunkNew == [code |-> <<>>, constants |-> <<>>, line_info |-> <<>>]

Count(chunk) == Len(chunk.code)

\* Chunk::write
Write(chunk, op_code, lineno) ==
    [chunk EXCEPT !.code = Append(@, op_code),
                  !.line_info = LineInfoAdd(@, Len(chunk.code), lineno)]

\* Chunk::replace_at (the index is always one the compiler wrote before)
ReplaceAt(chunk, op_code, write_index) ==
    [chunk EXCEPT !.code[write_index + 1] = op_code]

\* Chunk::add_constant: the value is pushed first, then the index is converted
\* to u8 and `expect` panics when it does not fit
AddConstant(chunk, value) ==
    [chunk |-> [chunk EXCEPT !.constants = Append(@, value)],
     index |-> Len(chunk.constants),
     fits  |-> Len(chunk.constants) <= 255]

\* Chunk::get_lineno: <<>> stands for the panic of `expect`
ChunkGetLineno(chunk, offset) == LineInfoGetLineno(chunk.line_info, offset)

(***************************************************************************)
(* Compiler (compiler.rs).  A compiler is a record c; every method is an   *)
(* operator from c to the compiler after the call.  c.status is "ok",      *)
(* "err" (the method returned Err, which `?` hands up) or "panic" (todo!,  *)
(* expect or unwrap stopped the process).                                  *)
(*                                                                         *)
(* c.stmts and c.lets are not fields of the source: they note, for the     *)
(* properties checked below, the code range [start, end) of every          *)
(* expression statement and, for every local `let`, the offset that        *)
(* follows its initializer together with the local's index.  c.notes does  *)
(* the same for jumps, loops, `if`, `while`, `and`, `or` and blocks (see   *)
(* Note).  u8 arithmetic is done as a release build does it, wrapping, and *)
(* c.overflow says that some u8 operation wrapped: a debug build panics at *)
(* that operation instead.                                                 *)
(***************************************************************************)
ScriptType == [k |-> "Script", name |-> ""]

FunctionType(name) == [k |-> "Function", name |-> name]

\* what is noted about a piece of emitted code: `from` is the offset of its
\* first byte, `at` the offset of the opcode of its jump, `to` the offset the
\* compiler meant the jump to reach (the end of the piece for `if`, `while`,
\* `and`, `or`).  For a block `at` is the offset where its exit code starts,
\* `to` its end and n the number of locals deeper than the restored depth.
Note(k, from, at, to, n) == [k |-> k, from |-> from, at |-> at, to |-> to, n |-> n]

\* Compiler::new.  Function::new() is called without an arity and nothing
\* assigns one later: a compiled function has the arity new() starts with.
\* The locals start empty (the TODO of line 38).
CompilerNew(function_type) ==
    [status        |-> "ok",
     err           |-> "",
     current_line  |-> 0,
     function      |-> [name  |-> IF function_type.k = "Function"
                                  THEN function_type.name ELSE "<script>",
                        arity |-> 0,
                        chunk |-> ChunkNew],
     function_type |-> function_type,
     locals        |-> <<>>,
     scope_depth   |-> 0,
     stmts         |-> {},
     lets          |-> {},
     notes         |-> {},
     operands      |-> {},
     uses          |-> {},
     overflow      |-> FALSE]

\* Err(...) returned by a method
Fail(c, message) == [c EXCEPT !.status = "err", !.err = message]

\* report_error: the message carries current_line
ReportError(c, message) == Fail(c, message)

\* todo!(), expect(...) or unwrap() on the failing side
Panic(c, message) == [c EXCEPT !.status = "panic", !.err = message]

EmitByte(c, byte) ==
    [c EXCEPT !.function.chunk = Write(@, byte, c.current_line)]

\* emit_bytes: an opcode and its operand; the operand's offset is noted
EmitBytes(c, byte1, byte2) ==
    [EmitByte(EmitByte(c, byte1), byte2) EXCEPT
        !.operands = @ \cup {Count(c.function.chunk) + 1}]

\* make_constant followed by the two bytes `op constant`
EmitWithConstant(c, op, value) ==
    LET r == AddConstant(c.function.chunk, value)
    IN  IF r.fits
        THEN EmitBytes([c EXCEPT !.function.chunk = r.chunk], op, r.index)
        ELSE Panic(c, "Constant index didn't fit in byte")

EmitConstant(c, value) == EmitWithConstant(c, OpConstant, value)

\* emit_jump: the compiler after it; the placeholder offset is Count - 2
EmitJump(c, instruction) ==
    [EmitByte(EmitByte(EmitByte(c, instruction), 0), 0) EXCEPT
        !.operands = @ \cup {Count(c.function.chunk) + 1,
                             Count(c.function.chunk) + 2}]

\* patch_jump: the two bytes are the low 16 bits of the distance
PatchJump(c, offset) ==
    LET jump == Count(c.function.chunk) - offset - 2
    IN  [c EXCEPT !.function.chunk =
            ReplaceAt(ReplaceAt(@, (jump \div 256) % 256, offset),
                      jump % 256, offset + 1),
                  !.notes = @ \cup {Note("jump", offset - 1, offset - 1,
                                         Count(c.function.chunk), 0)}]

\* emit_loop
EmitLoop(c, start_loop) ==
    LET c1 == EmitByte(c, OpLoop)
        loop_size == Count(c1.function.chunk) - start_loop + 2
        c2 == EmitByte(EmitByte(c1, (loop_size \div 256) % 256), loop_size % 256)
    IN  [c2 EXCEPT !.notes = @ \cup {Note("loop", start_loop, Count(c.function.chunk),
                                           start_loop, 0)},
                   !.operands = @ \cup {Count(c.function.chunk) + 1,
                                        Count(c.function.chunk) + 2}]

\* resolve_local: the index of the last local of that name, -1 for None
ResolveLocal(c, name) ==
    LET hits == {i \in 1..Len(c.locals) : c.locals[i].name = name}
    IN  IF hits = {} THEN -1
        ELSE (CHOOSE i \in hits : \A j \in hits : j <= i) - 1

\* add_local: walking down from the top, a local of a shallower scope ends the
\* search and a local of the same name met before that is an error
AddLocal(c, name) ==
    LET n == Len(c.locals)
        shallower == {i \in 1..n : c.locals[i].depth < c.scope_depth}
        stop == IF shallower = {} THEN 0
                ELSE CHOOSE i \in shallower : \A j \in shallower : j <= i
    IN  IF \E i \in (stop + 1)..n : c.locals[i].name = name
        THEN ReportError(c, "Already a variable with the name in this scope")
        ELSE [c EXCEPT !.locals = Append(@, [name |-> name, depth |-> c.scope_depth])]

RECURSIVE Expression(_, _)
RECURSIVE Statement(_, _)
RECURSIVE Declaration(_, _)
RECURSIVE Declarations(_, _)

\* after an Ok step, go on with f; Err and panic are handed up unchanged
Ok(c) == c.status = "ok"

LiteralExpr(c, literal) ==
    CASE literal.lit = "Number" -> EmitConstant(c, literal.v)
      [] literal.lit = "Str"    -> EmitConstant(c, literal.v)
      [] literal.lit = "True"   -> EmitByte(c, OpTrue)
      [] literal.lit = "False"  -> EmitByte(c, OpFalse)
      [] OTHER                  -> Panic(c, "not yet implemented")

UnaryExpr(c, op) ==
    IF op.operator \in {"Minus", "Not"}
    THEN LET c1 == Expression(c, op.right)
         IN  IF Ok(c1)
             THEN EmitByte(c1, IF op.operator = "Minus" THEN OpNegate ELSE OpNot)
             ELSE c1
    ELSE Fail(c, "Unexpected unary operator")

\* the opcode binary() picks for an operator token, -1 for `_`
BinaryOpCode(typ) ==
    CASE typ = "Minus"        -> OpSubtract
      [] typ = "Plus"         -> OpAdd
      [] typ = "Slash"        -> OpDivide
      [] typ = "Star"         -> OpMultiply
      [] typ = "EqualEqual"   -> OpEqualEqual
      [] typ = "BangEqual"    -> OpBangEqual
      [] typ = "Less"         -> OpLess
      [] typ = "LessEqual"    -> OpLessEqual
      [] typ = "Greater"      -> OpGreater
      [] typ = "GreaterEqual" -> OpGreaterEqual
      [] OTHER                -> -1

BinaryExpr(c, op) ==
    LET c1 == Expression(c, op.left)
        c2 == Expression(c1, op.right)
    IN  IF ~Ok(c1) THEN c1
        ELSE IF ~Ok(c2) THEN c2
        ELSE IF BinaryOpCode(op.operator) = -1
             THEN Fail(c2, "Unexpected binary operator")
        ELSE EmitByte(c2, BinaryOpCode(op.operator))

\* LogicalExpr without the POP of the left operand
LogicalExprNoPop(c, op) ==
    LET c1 == Expression(c, op.left)
        jmp == IF op.operator = "And" THEN OpJumpIfFalse ELSE OpJumpIfTrue
        c2 == EmitJump(c1, jmp)
        jump_offset == Count(c2.function.chunk) - 2
        c3 == Expression(c2, op.right)
    IN  IF ~Ok(c1) THEN c1
        ELSE IF op.operator \notin {"And", "Or"}
             THEN Fail(c1, "Unexpected logical operator")
        ELSE IF ~Ok(c3) THEN c3
        ELSE PatchJump(c3, jump_offset)

LogicalExpr(c, op) ==
    LET c1 == Expression(c, op.left)
        jmp == IF op.operator = "And" THEN OpJumpIfFalse ELSE OpJumpIfTrue
        c2 == EmitJump(c1, jmp)
        jump_offset == Count(c2.function.chunk) - 2
        c3 == Expression(EmitByte(c2, OpPop), op.right)
    IN  IF ~Ok(c1) THEN c1
        ELSE IF op.operator \notin {"And", "Or"}
             THEN Fail(c1, "Unexpected logical operator")
        ELSE IF ~Ok(c3) THEN c3
        ELSE [PatchJump(c3, jump_offset) EXCEPT
                 !.notes = @ \cup {Note(IF op.operator = "And" THEN "and" ELSE "or",
                                        Count(c.function.chunk), jump_offset - 1,
                                        Count(c3.function.chunk), 0)}]

\* what is remembered of a use (set = FALSE) or an assignment (set = TRUE) of
\* an identifier: the offset where its instruction goes and the locals then
Use(c, name, set) ==
    [c EXCEPT !.uses = @ \cup {[name |-> name, set |-> set,
                                 at |-> Count(c.function.chunk),
                                 locals |-> c.locals]}]

VariableExpr(c, variable) ==
    LET index == ResolveLocal(c, variable.name)
        c1 == Use(c, variable.name, FALSE)
    IN  IF index >= 0
        THEN (IF index <= 255 THEN EmitBytes(c1, OpGetLocal, index)
              ELSE Panic(c1, "unwrap on an Err value"))
        ELSE EmitWithConstant(c1, OpGetGlobal, Str(variable.name))

AssignmentExpr(c, assignment) ==
    LET c1 == Expression(c, assignment.value)
        index == ResolveLocal(c1, assignment.name)
        c2 == Use(c1, assignment.name, TRUE)
    IN  IF ~Ok(c1) THEN c1
        ELSE IF index >= 0
        THEN (IF index <= 255 THEN EmitBytes(c2, OpSetLocal, index)
              ELSE Panic(c2, "unwrap on an Err value"))
        ELSE EmitWithConstant(c2, OpSetGlobal, Str(assignment.name))

Expression(c, expr) ==
    CASE expr.k = "Literal"    -> LiteralExpr(c, expr)
      [] expr.k = "Unary"      -> UnaryExpr(c, expr)
      [] expr.k = "Binary"     -> BinaryExpr(c, expr)
      [] expr.k = "Call"       -> Panic(c, "not yet implemented")
      [] expr.k = "Grouping"   -> Expression(c, expr.expression)
      [] expr.k = "Variable"   -> VariableExpr(c, expr)
      [] expr.k = "Assignment" -> AssignmentExpr(c, expr)
      [] expr.k = "Logical"    -> LogicalExpr(c, expr)
      [] expr.k = "Get"        -> Panic(c, "not yet implemented")
      [] expr.k = "Set"        -> ReportError(c, "Set not supported")

\* the ExprStmt arm of statement(): the expression, then POP
ExprStatement(c, expr) ==
    LET c1 == Expression(c, expr)
        c2 == EmitByte(c1, OpPop)
    IN  IF ~Ok(c1) THEN c1
        ELSE [c2 EXCEPT !.stmts = @ \cup {<<Count(c.function.chunk),
                                            Count(c2.function.chunk)>>}]

IfStatement(c, if_stmt) ==
    LET c1 == Expression(c, if_stmt.condition)
        c2 == EmitJump(c1, OpJumpIfFalse)
        then_jump == Count(c2.function.chunk) - 2
        c3 == Statement(EmitByte(c2, OpPop), if_stmt.then_branch)
        c4 == EmitJump(c3, OpJump)
        else_jump == Count(c4.function.chunk) - 2
        c5 == EmitByte(PatchJump(c4, then_jump), OpPop)
        c6 == IF if_stmt.else_branch # <<>>
              THEN Statement(c5, if_stmt.else_branch[1]) ELSE c5
    IN  IF ~Ok(c1) THEN c1
        ELSE IF ~Ok(c3) THEN c3
        ELSE IF ~Ok(c6) THEN c6
        ELSE [PatchJump(c6, else_jump) EXCEPT
                 !.notes = @ \cup {Note("if", Count(c.function.chunk), then_jump - 1,
                                        Count(c6.function.chunk), 0)}]

\* return_statement: the statement's expression is not looked at
ReturnStatement(c) == EmitByte(c, OpReturn)

PrintStatement(c, expr) ==
    LET c1 == Expression(c, expr)
    IN  IF Ok(c1) THEN EmitByte(c1, OpPrint) ELSE c1

WhileStatement(c, while_stmt) ==
    LET loop_start == Count(c.function.chunk)
        c1 == Expression(c, while_stmt.condition)
        c2 == EmitJump(c1, OpJumpIfFalse)
        jump_offset == Count(c2.function.chunk) - 2
        c3 == Statement(EmitByte(c2, OpPop), while_stmt.body)
        c4 == EmitByte(PatchJump(EmitLoop(c3, loop_start), jump_offset), OpPop)
    IN  IF ~Ok(c1) THEN c1
        ELSE IF ~Ok(c3) THEN c3
        ELSE [c4 EXCEPT !.notes = @ \cup {Note("while", loop_start, jump_offset - 1,
                                                Count(c4.function.chunk), 0)}]

\* the end of block(): the locals deeper than the restored scope depth are
\* dropped and one POP or POPN is emitted for them.  scope_depth and
\* nb_vars_to_pop are u8: `-= 1` at 0 and the 256th `+= 1` wrap
BlockExit(c) ==
    LET depth == (c.scope_depth - 1) % 256
        n == Len(c.locals)
        kept == {i \in 0..n : \A j \in (i + 1)..n : c.locals[j].depth > depth}
        keep == CHOOSE i \in kept : \A j \in kept : i <= j
        nb_vars_to_pop == (n - keep) % 256
        c1 == [c EXCEPT !.scope_depth = depth, !.locals = SubSeq(@, 1, keep),
                        !.overflow = @ \/ c.scope_depth = 0 \/ n - keep > 255]
    IN  IF nb_vars_to_pop = 1 THEN EmitByte(c1, OpPop)
        ELSE IF nb_vars_to_pop > 1 THEN EmitBytes(c1, OpPopN, nb_vars_to_pop)
        ELSE c1

\* the first line of block(): `scope_depth += 1` wraps at 255
BlockEnter(c) ==
    [c EXCEPT !.scope_depth = (@ + 1) % 256, !.overflow = @ \/ c.scope_depth = 255]

Block(c, declarations) ==
    LET c1 == Declarations(BlockEnter(c), declarations)
        c2 == BlockExit(c1)
        deeper == {i \in 1..Len(c1.locals) : c1.locals[i].depth > c.scope_depth}
    IN  IF Ok(c1)
        THEN [c2 EXCEPT !.notes = @ \cup {Note("block", Count(c.function.chunk),
                                                Count(c1.function.chunk),
                                                Count(c2.function.chunk),
                                                Cardinality(deeper))}]
        ELSE c1

Statement(c, statement) ==
    CASE statement.k = "ExprStmt"   -> ExprStatement(c, statement.expr)
      [] statement.k = "IfStmt"     -> IfStatement(c, statement)
      [] statement.k = "PrintStmt"  -> PrintStatement(c, statement.expr)
      [] statement.k = "ReturnStmt" -> ReturnStatement(c)
      [] statement.k = "WhileStmt"  -> WhileStatement(c, statement)
      [] statement.k = "Block"      -> Block(c, statement.declarations)

LetDecl(c, decl) ==
    LET c1 == Expression(c, decl.initializer[1])
        c2 == AddLocal(c1, decl.identifier)
    IN  IF decl.initializer = <<>>
        THEN Panic(c, "Expected initializer to let declaration")
        ELSE IF ~Ok(c1) THEN c1
        ELSE IF c1.scope_depth > 0
        THEN (IF Ok(c2)
              THEN [c2 EXCEPT !.lets = @ \cup {<<Count(c1.function.chunk),
                                                 Len(c1.locals)>>}]
              ELSE c2)
        ELSE EmitWithConstant(c1, OpDefineGlobal, Str(decl.identifier))

\* Compiler::run: the declarations, then EOF
Run(c, declarations) ==
    LET c1 == Declarations(c, declarations)
    IN  IF Ok(c1) THEN EmitByte(c1, OpEof) ELSE c1

\* fun_decl: the body is compiled by a compiler of its own (decl.params is
\* never read), and the function becomes a constant of this chunk
FunDecl(c, decl) ==
    LET sub == Run(CompilerNew(FunctionType(decl.name)), decl.body)
        fn == Function(sub.function.name, sub.function.arity, sub.function.chunk)
        c1 == EmitConstant([c EXCEPT !.overflow = @ \/ sub.overflow], fn)
    IN  IF ~Ok(sub) THEN [c EXCEPT !.status = sub.status, !.err = sub.err,
                                   !.overflow = @ \/ sub.overflow]
        ELSE IF ~Ok(c1) THEN c1
        ELSE IF c1.scope_depth > 0 THEN AddLocal(c1, decl.name)
        ELSE EmitWithConstant(c1, OpDefineGlobal, Str(decl.name))

\* declaration(): decl is a DeclarationWithLineNo
Declaration(c, decl) ==
    LET c1 == [c EXCEPT !.current_line = decl.lineno]
    IN  CASE decl.decl.k = "FunDecl"   -> FunDecl(c1, decl.decl)
          [] decl.decl.k = "LetDecl"   -> LetDecl(c1, decl.decl)
          [] decl.decl.k = "Statement" -> Statement(c1, decl.decl.stmt)

\* `for decl in declarations { self.declaration(decl)?; }`: the declarations
\* in their order, the first failure ending the loop (the sequence is halved
\* to keep the evaluation shallow)
Declarations(c, declarations) ==
    IF declarations = <<>> \/ ~Ok(c) THEN c
    ELSE IF Len(declarations) = 1 THEN Declaration(c, declarations[1])
    ELSE LET half == Len(declarations) \div 2
         IN  Declarations(Declarations(c, SubSeq(declarations, 1, half)),
                          SubSeq(declarations, half + 1, Len(declarations)))

(***************************************************************************)
(* Value: equality, truthiness, display (value.rs)                         *)
(***************************************************************************)
RECURSIVE ValueEq(_, _)
\* #[derive(PartialEq)] on Value, Function, Chunk and NativeFunction: the same
\* variant and equal payloads, field by field; f64 fields compare as f64
ValueEq(a, b) ==
    IF a.t # b.t THEN FALSE
    ELSE CASE a.t = "Number"  -> NumEq(a, b)
           [] a.t = "Boolean" -> a.b = b.b
           [] a.t = "Str"     -> a.s = b.s
           [] a.t = "Function" ->
                /\ a.arity = b.arity
                /\ a.name = b.name
                /\ a.chunk.code = b.chunk.code
                /\ a.chunk.line_info = b.chunk.line_info
                /\ Len(a.chunk.constants) = Len(b.chunk.constants)
                /\ \A i \in 1..Len(a.chunk.constants) :
                       ValueEq(a.chunk.constants[i], b.chunk.constants[i])
           [] a.t = "NativeFunction" ->
                a.arity = b.arity /\ a.name = b.name /\ a.impl = b.impl

\* is_falsey of a language where only `false` is falsey
IsFalseyOnlyFalse(v) == v.t = "Boolean" /\ ~v.b

\* Value::is_falsey
IsFalsey(v) ==
    CASE v.t = "Number"         -> NumEq(v, Number(0))
      [] v.t = "Boolean"        -> ~v.b
      [] v.t = "Str"            -> v.s = ""
      [] v.t = "Function"       -> FALSE
      [] v.t = "NativeFunction" -> FALSE

\* Value::is_truthy
IsTruthy(v) == ~IsFalsey(v)

\* the digits of rem/d after the decimal point, at most `left` of them
RECURSIVE FractionDigits(_, _, _)
FractionDigits(rem, d, left) ==
    IF rem = 0 \/ left = 0 THEN ""
    ELSE ToString((rem * 10) \div d) \o FractionDigits((rem * 10) % d, d, left - 1)

\* Display for f64: integers print without a fraction; a fraction that does
\* not end within 16 digits is cut there (the source prints the shortest
\* digits that read back as the same f64)
DisplayNumber(x) ==
    CASE x.k = "nan" -> "NaN"
      [] x.k = "inf" -> IF x.neg THEN "-inf" ELSE "inf"
      [] x.k = "fin" ->
            (IF x.neg THEN "-" ELSE "") \o ToString(x.n \div x.d)
            \o (IF x.n % x.d = 0 THEN ""
                ELSE "." \o FractionDigits(x.n % x.d, x.d, 16))

\* impl fmt::Display for Value
Display(v) ==
    CASE v.t = "Number"         -> DisplayNumber(v)
      [] v.t = "Boolean"        -> IF v.b THEN "true" ELSE "false"
      [] v.t = "Str"            -> v.s
      [] v.t = "Function"       -> "<fn " \o v.name \o ">"
      [] v.t = "NativeFunction" -> "<fn " \o v.name \o ">"

(***************************************************************************)
(* VM (vm.rs).  A VM is a record v of the fields of struct VM.  usize      *)
(* values are kept as integers; a subtraction that would go below zero     *)
(* panics in a debug build and wraps in a release build, and a wrapped     *)
(* value is kept as the negative number it wrapped from: it is far outside *)
(* every vector, so the next use of it as an index panics.                 *)
(***************************************************************************)
Builds == {"debug", "release"}

\* the capacity VM::new reserves for the frames
FRAMES_MAX == 64

CallFrameNew(ip, slots_start_index) ==
    [ip |-> ip, slots_start_index |-> slots_start_index]

NoGlobals == [name \in {} |-> Boolean(FALSE)]

\* VM::new
VMNew(function) ==
    [frames              |-> << CallFrameNew(0, 0) >>,
     current_frame_index |-> 0,
     stack               |-> << function >>,
     globals             |-> NoGlobals]

\* what one instruction did: the VM after it, and whether run() goes on
\* ("running"), returned Ok ("ok"), returned a RuntimeError or panicked
Result(v, st, msg, line, printed) ==
    [v |-> v, st |-> st, msg |-> msg, line |-> line, printed |-> printed]

Running(v) == Result(v, "running", "", 0, <<>>)

Panicked(v) == Result(v, "panic", "", 0, <<>>)

HasFrame(v) == v.current_frame_index + 1 \in DOMAIN v.frames

CurrentFrame(v) == v.frames[v.current_frame_index + 1]

\* get_chunk: << chunk >>, or <<>> when it panics (no such frame, no such
\* slot, or a slot that holds no Function)
GetChunk(v) ==
    IF ~HasFrame(v) THEN <<>>
    ELSE LET base == CurrentFrame(v).slots_start_index
         IN  IF base + 1 \notin DOMAIN v.stack THEN <<>>
             ELSE IF v.stack[base + 1].t # "Function" THEN <<>>
             ELSE << v.stack[base + 1].chunk >>

SetIp(v, ip) == [v EXCEPT !.frames[v.current_frame_index + 1].ip = ip]

\* read_byte: << byte, VM after >>, or <<>> when it panics
ReadByte(v) ==
    LET chunk == GetChunk(v)
    IN  IF chunk = <<>> THEN <<>>
        ELSE LET ip == CurrentFrame(v).ip
             IN  IF ip + 1 \notin DOMAIN chunk[1].code THEN <<>>
                 ELSE << chunk[1].code[ip + 1], SetIp(v, ip + 1) >>

\* read_constant: << constant, VM after >>, or <<>> when it panics
ReadConstant(v) ==
    LET r == ReadByte(v)
    IN  IF r = <<>> THEN <<>>
        ELSE LET chunk == GetChunk(r[2])
             IN  IF chunk = <<>> \/ r[1] + 1 \notin DOMAIN chunk[1].constants
                 THEN <<>>
                 ELSE << chunk[1].constants[r[1] + 1], r[2] >>

\* read_short: << (x << 8) | y, VM after >>, or <<>> when it panics
ReadShort(v) ==
    LET x == ReadByte(v)
        y == ReadByte(x[2])
    IN  IF x = <<>> THEN <<>>
        ELSE IF y = <<>> THEN <<>>
        ELSE << x[1] * 256 + y[1], y[2] >>

Push(v, value) == [v EXCEPT !.stack = Append(@, value)]

\* peek: the value `offset` below the top (the caller checks CanPeek)
CanPeek(v, offset) == Len(v.stack) - offset \in DOMAIN v.stack

Peek(v, offset) == v.stack[Len(v.stack) - offset]

\* the VM after `n` calls of pop (the caller checks that n values are there)
Drop(v, n) == [v EXCEPT !.stack = SubSeq(@, 1, Len(@) - n)]

\* runtime_error without reset_stack
RuntimeErrorKeepStack(v, msg) ==
    LET chunk == GetChunk(v)
        lineno == ChunkGetLineno(chunk[1], CurrentFrame(v).ip - 1)
    IN  IF chunk = <<>> THEN Panicked(v)
        ELSE IF lineno = <<>> THEN Panicked(v)
        ELSE Result(v, "runtime_error", msg, lineno[1], <<>>)

\* runtime_error: the line of the byte before ip, then reset_stack
RuntimeError(v, msg) ==
    LET chunk == GetChunk(v)
        lineno == ChunkGetLineno(chunk[1], CurrentFrame(v).ip - 1)
    IN  IF chunk = <<>> THEN Panicked(v)
        ELSE IF lineno = <<>> THEN Panicked(v)
        ELSE Result([v EXCEPT !.stack = <<>>], "runtime_error", msg, lineno[1], <<>>)

(***************************************************************************)
(* The arms of the match in VM::run.  Each takes the VM as it is once the  *)
(* opcode byte has been read (ip is one past it).                          *)
(***************************************************************************)
ExecConstant(v) ==
    LET r == ReadConstant(v)
    IN  IF r = <<>> THEN Panicked(v) ELSE Running(Push(r[2], r[1]))

ExecNegate(v) ==
    IF ~CanPeek(v, 0) THEN Panicked(v)
    ELSE LET value == Peek(v, 0)
         IN  IF value.t = "Number" THEN Running(Push(Drop(v, 1), NumNeg(value)))
             ELSE RuntimeError(Drop(v, 1), "Operand must be a number")

\* ExecAdd that concatenates whenever the left operand is a string
ExecAddCoerce(v) ==
    IF ~CanPeek(v, 1) THEN Panicked(v)
    ELSE LET b == Peek(v, 0)
             a == Peek(v, 1)
         IN  IF a.t = "Number" /\ b.t = "Number"
             THEN Running(Push(Drop(v, 2), NumAdd(a, b)))
             ELSE IF a.t = "Str"
             THEN Running(Push(Drop(v, 2), Str(a.s \o Display(b))))
             ELSE RuntimeError(Drop(v, 2), "Operands must be two numbers or two strings")

ExecAdd(v) ==
    IF ~CanPeek(v, 1) THEN Panicked(v)
    ELSE LET b == Peek(v, 0)
             a == Peek(v, 1)
         IN  IF a.t = "Number" /\ b.t = "Number"
             THEN Running(Push(Drop(v, 2), NumAdd(a, b)))
             ELSE IF a.t = "Str" /\ b.t = "Str"
             THEN Running(Push(Drop(v, 2), Str(a.s \o b.s)))
             ELSE RuntimeError(Drop(v, 2), "Operands must be two numbers or two strings")

\* `$valueType(x $op y)` of binary_op! for the seven opcodes that use it
BinaryOpValue(op, x, y) ==
    CASE op = OpSubtract     -> NumSub(x, y)
      [] op = OpMultiply     -> NumMul(x, y)
      [] op = OpDivide       -> NumDiv(x, y)
      [] op = OpLess         -> Boolean(NumLt(x, y))
      [] op = OpLessEqual    -> Boolean(NumLe(x, y))
      [] op = OpGreater      -> Boolean(NumGt(x, y))
      [] op = OpGreaterEqual -> Boolean(NumGe(x, y))

\* ExecBinaryOp that takes the first value popped for the left operand
ExecBinaryOpSwapped(v, op) ==
    IF ~CanPeek(v, 1) THEN Panicked(v)
    ELSE LET a == Peek(v, 0)
             b == Peek(v, 1)
         IN  IF a.t = "Number" /\ b.t = "Number"
             THEN Running(Push(Drop(v, 2), BinaryOpValue(op, a, b)))
             ELSE RuntimeError(Drop(v, 2), "Operands must be numbers")

\* binary_op!: b is popped first, then a
ExecBinaryOp(v, op) ==
    IF ~CanPeek(v, 1) THEN Panicked(v)
    ELSE LET b == Peek(v, 0)
             a == Peek(v, 1)
         IN  IF a.t = "Number" /\ b.t = "Number"
             THEN Running(Push(Drop(v, 2), BinaryOpValue(op, a, b)))
             ELSE RuntimeError(Drop(v, 2), "Operands must be numbers")

ExecEqualEqual(v) ==
    IF ~CanPeek(v, 1) THEN Panicked(v)
    ELSE Running(Push(Drop(v, 2), Boolean(ValueEq(Peek(v, 1), Peek(v, 0)))))

\* ExecBangEqual that pushes `a == b`
ExecBangEqualCopied(v) ==
    IF ~CanPeek(v, 1) THEN Panicked(v)
    ELSE Running(Push(Drop(v, 2), Boolean(ValueEq(Peek(v, 1), Peek(v, 0)))))

ExecBangEqual(v) ==
    IF ~CanPeek(v, 1) THEN Panicked(v)
    ELSE Running(Push(Drop(v, 2), Boolean(~ValueEq(Peek(v, 1), Peek(v, 0)))))

\* Vec::truncate: a length at or above the current one changes nothing
Truncate(s, len) == IF len < 0 \/ len >= Len(s) THEN s ELSE SubSeq(s, 1, len)

\* OpReturn: `current_frame_index -= 1` goes below zero in the script frame
ExecReturn(v, build) ==
    IF ~CanPeek(v, 0) THEN Panicked(v)
    ELSE LET result == Peek(v, 0)
             v1 == Drop(v, 1)
             frame == v1.frames[Len(v1.frames)]
             v2 == [v1 EXCEPT !.frames = SubSeq(@, 1, Len(@) - 1)]
             v3 == [v2 EXCEPT !.current_frame_index = @ - 1,
                              !.stack = Truncate(@, frame.slots_start_index)]
         IN  IF v1.frames = <<>> THEN Panicked(v1)
             ELSE IF v2.current_frame_index = 0 /\ build = "debug" THEN Panicked(v2)
             ELSE Running(Push(v3, result))

ExecTrue(v) == Running(Push(v, Boolean(TRUE)))

ExecFalse(v) == Running(Push(v, Boolean(FALSE)))

\* ExecNot that negates the truthiness of any value
ExecNotTruthiness(v) ==
    IF ~CanPeek(v, 0) THEN Panicked(v)
    ELSE Running(Push(Drop(v, 1), Boolean(IsFalsey(Peek(v, 0)))))

ExecNot(v) ==
    IF ~CanPeek(v, 0) THEN Panicked(v)
    ELSE LET value == Peek(v, 0)
         IN  IF value.t = "Boolean" THEN Running(Push(Drop(v, 1), Boolean(~value.b)))
             ELSE RuntimeError(Drop(v, 1), "Operand must be a boolean")

ExecPrint(v) ==
    IF ~CanPeek(v, 0) THEN Panicked(v)
    ELSE Result(Drop(v, 1), "running", "", 0, << Display(Peek(v, 0)) >>)

\* HashMap::insert
Insert(globals, name, value) ==
    [n \in DOMAIN globals \cup {name} |-> IF n = name THEN value ELSE globals[n]]

\* ExecDefineGlobal that leaves a name that is bound as it is
ExecDefineGlobalKeepFirst(v) ==
    IF ~CanPeek(v, 0) THEN Panicked(v)
    ELSE LET value == Peek(v, 0)
             r == ReadConstant(Drop(v, 1))
         IN  IF r = <<>> THEN Panicked(Drop(v, 1))
             ELSE IF r[1].t = "Str"
             THEN (IF r[1].s \in DOMAIN v.globals THEN Running(r[2])
                   ELSE Running([r[2] EXCEPT !.globals = Insert(@, r[1].s, value)]))
             ELSE RuntimeError(r[2], "Expected string constant")

\* OpDefineGlobal: the value is popped before the operand is read
ExecDefineGlobal(v) ==
    IF ~CanPeek(v, 0) THEN Panicked(v)
    ELSE LET value == Peek(v, 0)
             r == ReadConstant(Drop(v, 1))
         IN  IF r = <<>> THEN Panicked(Drop(v, 1))
             ELSE IF r[1].t = "Str"
             THEN Running([r[2] EXCEPT !.globals = Insert(@, r[1].s, value)])
             ELSE RuntimeError(r[2], "Expected string constant")

ExecGetGlobal(v) ==
    LET r == ReadConstant(v)
    IN  IF r = <<>> THEN Panicked(v)
        ELSE IF r[1].t # "Str" THEN RuntimeError(r[2], "Expected string constant")
        ELSE IF r[1].s \in DOMAIN v.globals
        THEN Running(Push(r[2], v.globals[r[1].s]))
        ELSE RuntimeError(r[2], "Undefined variable '" \o r[1].s \o "'")

\* ExecSetGlobal that defines the name when it is absent
ExecSetGlobalDefine(v) ==
    LET r == ReadConstant(v)
    IN  IF r = <<>> THEN Panicked(v)
        ELSE IF r[1].t # "Str" THEN RuntimeError(r[2], "Expected string constant")
        ELSE IF CanPeek(r[2], 0)
        THEN Running([r[2] EXCEPT !.globals = Insert(@, r[1].s, Peek(r[2], 0))])
        ELSE Panicked(r[2])

ExecSetGlobal(v) ==
    LET r == ReadConstant(v)
    IN  IF r = <<>> THEN Panicked(v)
        ELSE IF r[1].t # "Str" THEN RuntimeError(r[2], "Expected string constant")
        ELSE IF r[1].s \in DOMAIN v.globals
        THEN (IF CanPeek(r[2], 0)
              THEN Running([r[2] EXCEPT !.globals = Insert(@, r[1].s, Peek(r[2], 0))])
              ELSE Panicked(r[2]))
        ELSE RuntimeError(r[2], "Cannot assign undefined variable " \o r[1].s \o ".")

ExecPop(v) == IF CanPeek(v, 0) THEN Running(Drop(v, 1)) ELSE Panicked(v)

\* pop_n: `stack.len() - n` below zero wraps in a release build, and truncate
\* to a length above the current one changes nothing
ExecPopN(v, build) ==
    LET r == ReadByte(v)
    IN  IF r = <<>> THEN Panicked(v)
        ELSE IF r[1] <= Len(r[2].stack) THEN Running(Drop(r[2], r[1]))
        ELSE IF build = "debug" THEN Panicked(r[2])
        ELSE Running(r[2])

\* get_local
GetLocal(v, index) == v.stack[index + CurrentFrame(v).slots_start_index + 1]

ExecGetLocal(v) ==
    LET r == ReadByte(v)
    IN  IF r = <<>> THEN Panicked(v)
        ELSE IF r[1] + CurrentFrame(r[2]).slots_start_index + 1 \notin DOMAIN r[2].stack
        THEN Panicked(r[2])
        ELSE Running(Push(r[2], GetLocal(r[2], r[1])))

\* the index OpSetLocal writes: the operand itself
SetLocalIndex(v, local_index) == local_index

ExecSetLocal(v) ==
    LET r == ReadByte(v)
    IN  IF r = <<>> THEN Panicked(v)
        ELSE IF ~CanPeek(r[2], 0) \/ SetLocalIndex(r[2], r[1]) + 1 \notin DOMAIN r[2].stack
        THEN Panicked(r[2])
        ELSE Running([r[2] EXCEPT !.stack[SetLocalIndex(r[2], r[1]) + 1] = Peek(r[2], 0)])

ExecJump(v) ==
    LET r == ReadShort(v)
    IN  IF r = <<>> THEN Panicked(v)
        ELSE Running(SetIp(r[2], CurrentFrame(r[2]).ip + r[1]))

ExecJumpIfTrue(v) ==
    IF ~CanPeek(v, 0) THEN Panicked(v)
    ELSE LET condition_is_truthy == IsTruthy(Peek(v, 0))
             r == ReadShort(v)
         IN  IF r = <<>> THEN Panicked(v)
             ELSE IF condition_is_truthy
             THEN Running(SetIp(r[2], CurrentFrame(r[2]).ip + r[1]))
             ELSE Running(r[2])

\* not the source: a JUMP_IF_FALSE that pops the condition it tested
ExecJumpIfFalsePopping(v) ==
    IF ~CanPeek(v, 0) THEN Panicked(v)
    ELSE LET condition_is_falsey == IsFalsey(Peek(v, 0))
             r == ReadShort(v)
         IN  IF r = <<>> THEN Panicked(v)
             ELSE IF condition_is_falsey
             THEN Running([SetIp(r[2], CurrentFrame(r[2]).ip + r[1]) EXCEPT
                              !.stack = SubSeq(@, 1, Len(@) - 1)])
             ELSE Running([r[2] EXCEPT !.stack = SubSeq(@, 1, Len(@) - 1)])

ExecJumpIfFalse(v) ==
    IF ~CanPeek(v, 0) THEN Panicked(v)
    ELSE LET condition_is_falsey == IsFalsey(Peek(v, 0))
             r == ReadShort(v)
         IN  IF r = <<>> THEN Panicked(v)
             ELSE IF condition_is_falsey
             THEN Running(SetIp(r[2], CurrentFrame(r[2]).ip + r[1]))
             ELSE Running(r[2])

\* OpLoop: `ip -= offset` below zero panics or wraps
ExecLoop(v, build) ==
    LET r == ReadShort(v)
    IN  IF r = <<>> THEN Panicked(v)
        ELSE IF CurrentFrame(r[2]).ip < r[1] /\ build = "debug" THEN Panicked(r[2])
        ELSE Running(SetIp(r[2], CurrentFrame(r[2]).ip - r[1]))

\* OpCall: a Function callee gets a frame (its arity is not compared with
\* nb_args and the number of frames is not looked at); any other callee
\* reaches todo!()
ExecCall(v, build) ==
    LET r == ReadByte(v)
    IN  IF r = <<>> THEN Panicked(v)
        ELSE IF ~CanPeek(r[2], r[1]) THEN Panicked(r[2])
        ELSE LET callee == Peek(r[2], r[1])
                 base == Len(r[2].stack) - callee.arity - 1
             IN  IF callee.t # "Function" THEN Panicked(r[2])
                 ELSE IF base < 0 /\ build = "debug" THEN Panicked(r[2])
                 ELSE Running([r[2] EXCEPT
                         !.frames = Append(@, CallFrameNew(0, base)),
                         !.current_frame_index = @ + 1])

ExecEof(v) == Result(v, "ok", "", 0, <<>>)

(***************************************************************************)
(* The AST (ast.rs).  A token is kept as its type (operators) or its       *)
(* lexeme (identifiers); an Option is <<>> or << x >>.                     *)
(***************************************************************************)
NumLit(i) == [k |-> "Literal", lit |-> "Number", v |-> Number(i)]

StrLit(s) == [k |-> "Literal", lit |-> "Str", v |-> Str(s)]

TrueLit == [k |-> "Literal", lit |-> "True", v |-> Boolean(TRUE)]

FalseLit == [k |-> "Literal", lit |-> "False", v |-> Boolean(FALSE)]

Unary(operator, right) == [k |-> "Unary", operator |-> operator, right |-> right]

Binary(left, operator, right) ==
    [k |-> "Binary", left |-> left, operator |-> operator, right |-> right]

Logical(left, operator, right) ==
    [k |-> "Logical", left |-> left, operator |-> operator, right |-> right]

Grouping(expression) == [k |-> "Grouping", expression |-> expression]

Variable(name) == [k |-> "Variable", name |-> name]

Assignment(name, value) == [k |-> "Assignment", name |-> name, value |-> value]

Call(callee, arguments) == [k |-> "Call", callee |-> callee, arguments |-> arguments]

ExprStmt(expr) == [k |-> "ExprStmt", expr |-> expr]

PrintStmt(expr) == [k |-> "PrintStmt", expr |-> expr]

IfStmt(condition, then_branch, else_branch) ==
    [k |-> "IfStmt", condition |-> condition, then_branch |-> then_branch,
     else_branch |-> else_branch]

WhileStmt(condition, body) == [k |-> "WhileStmt", condition |-> condition, body |-> body]

ReturnStmt(expr) == [k |-> "ReturnStmt", expr |-> expr]

BlockStmt(declarations) == [k |-> "Block", declarations |-> declarations]

LetD(identifier, initializer) ==
    [k |-> "LetDecl", identifier |-> identifier, initializer |-> initializer]

FunD(name, params, body) == [k |-> "FunDecl", name |-> name, params |-> params, body |-> body]

StmtD(stmt) == [k |-> "Statement", stmt |-> stmt]

\* DeclarationWithLineNo
At(lineno, decl) == [decl |-> decl, lineno |-> lineno]

\* Parser::for_stmt: `for (init; cond; incr) body` becomes
\* { init; while (cond) { body; incr; } }; for_line_no is the line of `for`
\* and lineno the line of the token after the body
ForStmt(for_line_no, initializer, condition, increment, body, lineno) ==
    LET full_body ==
            IF increment = <<>> THEN body
            ELSE BlockStmt(<< At(lineno, StmtD(body)),
                              At(lineno, StmtD(ExprStmt(increment[1]))) >>)
        while_stmt ==
            WhileStmt(IF condition = <<>> THEN TrueLit ELSE condition[1], full_body)
    IN  IF initializer = <<>> THEN while_stmt
        ELSE BlockStmt(<< At(for_line_no, initializer[1]),
                          At(for_line_no, StmtD(while_stmt)) >>)

(***************************************************************************)
(* The programs the model runs.                                            *)
(***************************************************************************)
\* number literals are 0..MaxLit
MaxLit == 1

\* the counting loops run 0..MaxLoop times
MaxLoop == 3

\* the calls of a recursion that never returns are followed up to this many
\* frames
MaxFrames == 66

\* the chunk written on its own takes up to MaxWrites bytes on lines 0..MaxLine
MaxWrites == 4

MaxLine == 2

\* the programs built around an expression E of a given size take E of
\* 1..MaxBody bytes
MaxBody == 3

\* `print 1 + 2 * 3;`
ProgArith == << At(1, StmtD(PrintStmt(
    Binary(NumLit(1), "Plus", Binary(NumLit(2), "Star", NumLit(3)))))) >>

\* `let a = "foo"; let b = "bar"; print a + b;`
ProgConcat ==
    << At(1, LetD("a", << StrLit("foo") >>)),
       At(1, LetD("b", << StrLit("bar") >>)),
       At(1, StmtD(PrintStmt(Binary(Variable("a"), "Plus", Variable("b"))))) >>

\* `if (1 < 2) print "y"; else print "n";`
ProgIf == << At(1, StmtD(IfStmt(Binary(NumLit(1), "Less", NumLit(2)),
                 PrintStmt(StrLit("y")), << PrintStmt(StrLit("n")) >>))) >>

\* `let s = 0; for (let i = 1; i <= 5; i = i + 1) s = s + i; print s;`
ProgFor ==
    << At(1, LetD("s", << NumLit(0) >>)),
       At(1, StmtD(ForStmt(1,
            << LetD("i", << NumLit(1) >>) >>,
            << Binary(Variable("i"), "LessEqual", NumLit(5)) >>,
            << Assignment("i", Binary(Variable("i"), "Plus", NumLit(1))) >>,
            ExprStmt(Assignment("s", Binary(Variable("s"), "Plus", Variable("i")))),
            1))),
       At(1, StmtD(PrintStmt(Variable("s")))) >>

\* `fun add(a, b) { return a + b; } print add(2, 40);`
ProgAdd ==
    << At(1, FunD("add", << "a", "b" >>,
            << At(1, StmtD(ReturnStmt(
                   << Binary(Variable("a"), "Plus", Variable("b")) >>))) >>)),
       At(1, StmtD(PrintStmt(
            Call(Variable("add"), << NumLit(2), NumLit(40) >>)))) >>

\* `print 1 + "x";`
ProgAddError == << At(1, StmtD(PrintStmt(Binary(NumLit(1), "Plus", StrLit("x"))))) >>

\* `{ let x = 1; print x; }`
ProgLocal ==
    << At(1, StmtD(BlockStmt(
        << At(1, LetD("x", << NumLit(1) >>)),
           At(1, StmtD(PrintStmt(Variable("x")))) >>))) >>

\* `{ let x = 1; x = 2; print x; }`
ProgLocalSet ==
    << At(1, StmtD(BlockStmt(
        << At(1, LetD("x", << NumLit(1) >>)),
           At(1, StmtD(ExprStmt(Assignment("x", NumLit(2))))),
           At(1, StmtD(PrintStmt(Variable("x")))) >>))) >>

\* `let n = 0 / 0;` / `print n == n;` / `print n != n;` on three lines
ProgNaN ==
    << At(1, LetD("n", << Binary(NumLit(0), "Slash", NumLit(0)) >>)),
       At(2, StmtD(PrintStmt(Binary(Variable("n"), "EqualEqual", Variable("n"))))),
       At(3, StmtD(PrintStmt(Binary(Variable("n"), "BangEqual", Variable("n"))))) >>

\* `1; "a"; true; -1; not true; (1 + 2) * 3; let g = 1; g = g + 1; g;
\*  g = g and 0; false or "b"; print g;`
ProgExprStmts ==
    << At(1, StmtD(ExprStmt(NumLit(1)))),
       At(1, StmtD(ExprStmt(StrLit("a")))),
       At(1, StmtD(ExprStmt(TrueLit))),
       At(1, StmtD(ExprStmt(Unary("Minus", NumLit(1))))),
       At(1, StmtD(ExprStmt(Unary("Not", TrueLit)))),
       At(1, StmtD(ExprStmt(
            Binary(Grouping(Binary(NumLit(1), "Plus", NumLit(2))), "Star", NumLit(3))))),
       At(1, LetD("g", << NumLit(1) >>)),
       At(1, StmtD(ExprStmt(Assignment("g", Binary(Variable("g"), "Plus", NumLit(1)))))),
       At(1, StmtD(ExprStmt(Variable("g")))),
       At(2, StmtD(ExprStmt(Assignment("g", Logical(Variable("g"), "And", NumLit(0)))))),
       At(2, StmtD(ExprStmt(Logical(FalseLit, "Or", StrLit("b"))))),
       At(2, StmtD(PrintStmt(Variable("g")))) >>

\* `print 1;` / `return;` / `print 2;`
ProgReturn ==
    << At(1, StmtD(PrintStmt(NumLit(1)))),
       At(2, StmtD(ReturnStmt(<<>>))),
       At(3, StmtD(PrintStmt(NumLit(2)))) >>

\* `let x;`
ProgLetNoInit == << At(1, LetD("x", <<>>)) >>

\* `{ let a = 1; let b = 2; { let c = 3; } }` / `print 3;`
ProgBlocks ==
    << At(1, StmtD(BlockStmt(
        << At(1, LetD("a", << NumLit(1) >>)),
           At(1, LetD("b", << NumLit(2) >>)),
           At(1, StmtD(BlockStmt(<< At(1, LetD("c", << NumLit(3) >>)) >>))) >>))),
       At(2, StmtD(PrintStmt(NumLit(3)))) >>

\* `{ let a = 1; let a = 2; }`
ProgRedeclare ==
    << At(1, StmtD(BlockStmt(
        << At(1, LetD("a", << NumLit(1) >>)),
           At(1, LetD("a", << NumLit(2) >>)) >>))) >>

\* `{ if (true) 1; else 2; if (false) 1; else 2; let t = 0; 4; }`: expression
\* statements as branches and inside a block
ProgNested ==
    << At(1, StmtD(BlockStmt(
        << At(1, StmtD(IfStmt(TrueLit, ExprStmt(NumLit(1)), << ExprStmt(NumLit(2)) >>))),
           At(1, StmtD(IfStmt(FalseLit, ExprStmt(NumLit(1)), << ExprStmt(NumLit(2)) >>))),
           At(1, LetD("t", << NumLit(0) >>)),
           At(1, StmtD(ExprStmt(NumLit(4)))) >>))) >>

\* `let a = 1; a = 2; print a; let a = "s"; print a;` / `b = 4;` / `print a;`
ProgGlobals ==
    << At(1, LetD("a", << NumLit(1) >>)),
       At(1, StmtD(ExprStmt(Assignment("a", NumLit(2))))),
       At(1, StmtD(PrintStmt(Variable("a")))),
       At(1, LetD("a", << StrLit("s") >>)),
       At(1, StmtD(PrintStmt(Variable("a")))),
       At(2, StmtD(ExprStmt(Assignment("b", NumLit(4))))),
       At(3, StmtD(PrintStmt(Variable("a")))) >>

\* `print 1;` / `print u;` / `print 2;`
ProgUndefined ==
    << At(1, StmtD(PrintStmt(NumLit(1)))),
       At(2, StmtD(PrintStmt(Variable("u")))),
       At(3, StmtD(PrintStmt(NumLit(2)))) >>

\* `fun one() { 2; return 1; }`
ProgFunReturn ==
    << At(1, FunD("one", <<>>,
            << At(1, StmtD(ExprStmt(NumLit(2)))),
               At(1, StmtD(ReturnStmt(<< NumLit(1) >>))) >>)) >>

\* `fun f(p, q) { print q; }`
ProgFunParams ==
    << At(1, FunD("f", << "p", "q" >>,
            << At(1, StmtD(PrintStmt(Variable("q")))) >>)) >>

\* `print clock;`
ProgClock == << At(1, StmtD(PrintStmt(Variable("clock")))) >>

FixedPrograms ==
    << ProgArith, ProgConcat, ProgIf, ProgFor, ProgAdd, ProgAddError, ProgLocal,
       ProgLocalSet, ProgNaN, ProgExprStmts, ProgReturn, ProgLetNoInit, ProgBlocks,
       ProgRedeclare, ProgNested, ProgGlobals, ProgUndefined, ProgFunReturn,
       ProgFunParams, ProgClock >>

\* the operand expressions of the generated programs: the number literals,
\* their negations, 0/0, 1/0, three strings, the booleans and the global `f`
\* that the programs bind to a function
Atoms ==
    [i \in 1..(MaxLit + 1) |-> NumLit(i - 1)]
    \o [i \in 1..(MaxLit + 1) |-> Unary("Minus", NumLit(i - 1))]
    \o << Binary(NumLit(0), "Slash", NumLit(0)),
          Binary(NumLit(1), "Slash", NumLit(0)),
          StrLit(""), StrLit("a"), StrLit("b"),
          TrueLit, FalseLit, Variable("f") >>

NAtoms == Len(Atoms)

BinaryOperators ==
    {"Minus", "Plus", "Slash", "Star", "EqualEqual", "BangEqual", "Less",
     "LessEqual", "Greater", "GreaterEqual"}

LogicalOperators == {"And", "Or"}

UnaryOperators == {"Minus", "Not"}

\* `fun f() {}`
DeclareF == At(1, FunD("f", <<>>, <<>>))

OperatorExpr(op, a, b) ==
    IF op \in LogicalOperators THEN Logical(Atoms[a], op, Atoms[b])
    ELSE Binary(Atoms[a], op, Atoms[b])

\* `let i = 0; while (i < n) i = i + 1; print i;`
ProgCount(n) ==
    << At(1, LetD("i", << NumLit(0) >>)),
       At(1, StmtD(WhileStmt(Binary(Variable("i"), "Less", NumLit(n)),
            ExprStmt(Assignment("i", Binary(Variable("i"), "Plus", NumLit(1))))))),
       At(1, StmtD(PrintStmt(Variable("i")))) >>

\* an expression of `true`, `not` and `==` whose code takes exactly n bytes
\* (n >= 1), as a tree of depth about log2(n)
RECURSIVE SizedExpr(_)
SizedExpr(n) ==
    IF n = 1 THEN TrueLit
    ELSE IF n = 2 THEN Unary("Not", TrueLit)
    ELSE Binary(SizedExpr((n - 1) \div 2), "EqualEqual",
                SizedExpr(n - 1 - ((n - 1) \div 2)))

\* `if (false) { print 1; if (false) print E; }` / `print 2;` with E of n
\* bytes: the first JUMP_IF_FALSE has n + 17 bytes to jump over
ProgIfSized(n) ==
    << At(1, StmtD(IfStmt(FalseLit,
            BlockStmt(<< At(1, StmtD(PrintStmt(NumLit(1)))),
                         At(1, StmtD(IfStmt(FalseLit, PrintStmt(SizedExpr(n)), <<>>))) >>),
            <<>>))),
       At(2, StmtD(PrintStmt(NumLit(2)))) >>

\* `print false and (true or E);` with E of n bytes: the JUMP_IF_FALSE of
\* `and` has n + 6 bytes to jump over
ProgAndSized(n) ==
    << At(1, StmtD(PrintStmt(
            Logical(FalseLit, "And", Logical(TrueLit, "Or", SizedExpr(n)))))) >>

\* `let i = 0; while (i < 1) { i = i + 1; if (false) print E; else print F; }`
\* / `print i;` with E of n bytes and F of 22: LOOP has n + 53 bytes to go back
ProgWhileSized(n) ==
    << At(1, LetD("i", << NumLit(0) >>)),
       At(1, StmtD(WhileStmt(Binary(Variable("i"), "Less", NumLit(1)),
            BlockStmt(<<
                At(1, StmtD(ExprStmt(
                    Assignment("i", Binary(Variable("i"), "Plus", NumLit(1)))))),
                At(1, StmtD(IfStmt(FalseLit, PrintStmt(SizedExpr(n)),
                                   << PrintStmt(SizedExpr(22)) >>))) >>)))),
       At(2, StmtD(PrintStmt(Variable("i")))) >>

\* the sum of n literals 0, as a balanced tree: n constants in the chunk
RECURSIVE SumExpr(_)
SumExpr(n) ==
    IF n = 1 THEN NumLit(0)
    ELSE Binary(SumExpr(n \div 2), "Plus", SumExpr(n - (n \div 2)))

\* `print 0 + 0 + ... + 0;` with n literals
ProgSumSized(n) == << At(1, StmtD(PrintStmt(SumExpr(n)))) >>

\* `{ let a1 = true; ... let an = true; }` / `print 1;`: a block of n locals
ProgBlockSized(n) ==
    << At(1, StmtD(BlockStmt(
            [i \in 1..n |-> At(1, LetD("a" \o ToString(i), << TrueLit >>))]))),
       At(2, StmtD(PrintStmt(NumLit(1)))) >>

\* `let a1 = 0;` / `{ let a1 = true; ... let an = true; print an; an = false;
\* { let a1 = false; print a1; a1 = true; } print a1; b = a1; }` / `print a1;`:
\* uses and assignments of the n-th local of a block, of a local that
\* shadows another, of the shadowed local, and of globals
ProgUseSized(n) ==
    << At(1, LetD("a1", << NumLit(0) >>)),
       At(2, StmtD(BlockStmt(
            [i \in 1..n |-> At(2, LetD("a" \o ToString(i), << TrueLit >>))]
            \o << At(2, StmtD(PrintStmt(Variable("a" \o ToString(n))))),
                  At(2, StmtD(ExprStmt(Assignment("a" \o ToString(n), FalseLit)))),
                  At(2, StmtD(BlockStmt(
                      << At(2, LetD("a1", << FalseLit >>)),
                         At(2, StmtD(PrintStmt(Variable("a1")))),
                         At(2, StmtD(ExprStmt(Assignment("a1", TrueLit)))) >>))),
                  At(2, StmtD(PrintStmt(Variable("a1")))),
                  At(2, StmtD(ExprStmt(Assignment("b", Variable("a1"))))) >>))),
       At(3, StmtD(PrintStmt(Variable("a1")))) >>

\* `{ let a = true; { ... { let a = false; print a; } ... } }` with n blocks,
\* as the pieces block() meets one after the other: entering a block, a
\* declaration of the block, leaving a block.  With n = 1 the two `let a` are
\* in the same block
BlockOpen == [tok |-> "{"]

BlockClose == [tok |-> "}"]

Piece(decl) == [tok |-> "decl", decl |-> decl]

ProgNest(n) ==
    << BlockOpen, Piece(At(1, LetD("a", << TrueLit >>))) >>
    \o [i \in 1..(n - 1) |-> BlockOpen]
    \o << Piece(At(1, LetD("a", << FalseLit >>))),
          Piece(At(1, StmtD(PrintStmt(Variable("a"))))) >>
    \o [i \in 1..n |-> BlockClose]

\* an input of the model: a source program (as the parser hands it to the
\* compiler) or a hand-assembled function (fam = "asm")
Input(fam, i, op, a, b) == [fam |-> fam, i |-> i, op |-> op, a |-> a, b |-> b]

SourceInputs ==
    {Input("fixed", i, "", 0, 0) : i \in 1..Len(FixedPrograms)}
    \cup {Input("count", i, "", 0, 0) : i \in 0..MaxLoop}
    \cup {Input("print", 0, op, a, b) :
            op \in BinaryOperators \cup LogicalOperators,
            a \in 1..NAtoms, b \in 1..NAtoms}
    \cup {Input("stmt", 0, op, a, b) :
            op \in BinaryOperators \cup LogicalOperators,
            a \in 1..NAtoms, b \in {1, NAtoms - 1}}
    \cup {Input("unary", 0, op, a, 0) : op \in UnaryOperators, a \in 1..NAtoms}
    \cup {Input("if", 0, "", a, 0) : a \in 1..NAtoms}

\* the sizes of E: 1..MaxBody, and for each of the three programs one that
\* takes the distance of its jump past the 16 bits of a jump operand; the
\* sums have up to 257 constants, one more than a byte indexes, and the
\* blocks up to 256 locals, one more than a u8 counts
SmallSizes == 1..MaxBody

SizedInputs ==
    {Input("if_sized", n, "", 0, 0) : n \in SmallSizes \cup {256 * 256 + 1 - 17}}
    \cup {Input("and_sized", n, "", 0, 0) : n \in SmallSizes \cup {256 * 256 + 1 - 6}}
    \cup {Input("while_sized", n, "", 0, 0) : n \in SmallSizes \cup {256 * 256 + 28 - 53}}
    \cup {Input("sum_sized", n, "", 0, 0) : n \in SmallSizes \cup {256, 256 + 1}}
    \cup {Input("block_sized", n, "", 0, 0) : n \in SmallSizes \cup {0, 256 - 1, 256}}
    \cup {Input("use_sized", n, "", 0, 0) : n \in SmallSizes \cup {256, 256 + 1}}

\* the declarations of a source input
Program(in) ==
    CASE in.fam = "fixed" -> FixedPrograms[in.i]
      [] in.fam = "count" -> ProgCount(in.i)
      [] in.fam = "print" ->
            << DeclareF, At(2, StmtD(PrintStmt(OperatorExpr(in.op, in.a, in.b)))) >>
      [] in.fam = "stmt" ->
            << DeclareF, At(2, StmtD(ExprStmt(OperatorExpr(in.op, in.a, in.b)))),
               At(3, StmtD(PrintStmt(NumLit(0)))) >>
      [] in.fam = "unary" ->
            << DeclareF, At(2, StmtD(PrintStmt(Unary(in.op, Atoms[in.a])))) >>
      [] in.fam = "if" ->
            << DeclareF, At(2, StmtD(IfStmt(Atoms[in.a],
                    PrintStmt(NumLit(1)), << PrintStmt(NumLit(2)) >>))) >>
      [] in.fam = "if_sized" -> ProgIfSized(in.i)
      [] in.fam = "and_sized" -> ProgAndSized(in.i)
      [] in.fam = "while_sized" -> ProgWhileSized(in.i)
      [] in.fam = "sum_sized" -> ProgSumSized(in.i)
      [] in.fam = "block_sized" -> ProgBlockSized(in.i)
      [] in.fam = "use_sized" -> ProgUseSized(in.i)
      [] in.fam = "nest" -> ProgNest(in.i)

\* a chunk written byte by byte on line 1, with the constants given
RECURSIVE WriteAll(_, _)
WriteAll(chunk, bytes) ==
    IF bytes = <<>> THEN chunk
    ELSE WriteAll(Write(chunk, Head(bytes), 1), Tail(bytes))

Assemble(name, arity, bytes, constants) ==
    Function(name, arity, [WriteAll(ChunkNew, bytes) EXCEPT !.constants = constants])

\* f(x) { x = 9; return x; }: GET_LOCAL 1, POP, CONSTANT 9, SET_LOCAL 1, POP,
\* GET_LOCAL 1, RETURN
AsmSetParam ==
    Assemble("f", 1,
        << OpGetLocal, 1, OpPop, OpConstant, 0, OpSetLocal, 1, OpPop,
           OpGetLocal, 1, OpReturn >>,
        << Number(9) >>)

\* script: print f(7);
AsmCallSetParam ==
    Assemble("<script>", 0,
        << OpConstant, 0, OpConstant, 1, OpCall, 1, OpPrint, OpEof >>,
        << AsmSetParam, Number(7) >>)

\* add(a, b) { return a + b; }
AsmAdd ==
    Assemble("add", 2, << OpGetLocal, 1, OpGetLocal, 2, OpAdd, OpReturn >>, <<>>)

\* script: the code the lowering rules give for
\* `fun add(a, b) { return a + b; } print add(2, 40);`
AsmCallAdd ==
    Assemble("<script>", 0,
        << OpConstant, 0, OpDefineGlobal, 1, OpGetGlobal, 2, OpConstant, 3,
           OpConstant, 4, OpCall, 2, OpPrint, OpEof >>,
        << AsmAdd, Str("add"), Str("add"), Number(2), Number(40) >>)

\* script: clock as a value: `if (clock) ...; print clock == clock; clock or 1;`
\* then a POPN and a call of clock
AsmNative ==
    Assemble("<script>", 0,
        << OpConstant, 0, OpJumpIfFalse, 0, 1, OpPop,
           OpConstant, 0, OpConstant, 0, OpEqualEqual, OpPrint,
           OpConstant, 0, OpJumpIfTrue, 0, 1, OpPop,
           OpTrue, OpFalse, OpPopN, 2,
           OpConstant, 0, OpCall, 0, OpEof >>,
        << get_clock_native_func >>)

\* script: { let a = 1; { let b = 2; b = a; } } with the local indexes counted
\* from the slot after the script function, then `false`, a loop that negates
\* it until it is truthy, and a POPN of one value more than the stack holds
AsmLocals ==
    Assemble("<script>", 0,
        << OpConstant, 0, OpConstant, 1, OpGetLocal, 1, OpSetLocal, 2, OpPop,
           OpPopN, 2, OpFalse, OpJumpIfTrue, 0, 4, OpNot, OpLoop, 0, 7,
           OpPopN, 3, OpEof >>,
        << Number(1), Number(2) >>)

\* five() { return 5; }
AsmFive == Assemble("five", 0, << OpConstant, 0, OpReturn >>, << Number(5) >>)

\* script: `five; add(7)`: add takes two parameters and gets one argument
AsmCallMismatch ==
    Assemble("<script>", 0,
        << OpConstant, 0, OpConstant, 1, OpConstant, 2, OpCall, 1, OpPrint, OpEof >>,
        << AsmFive, AsmAdd, Number(7) >>)

\* script: `print 7();`
AsmCallNumber ==
    Assemble("<script>", 0,
        << OpConstant, 0, OpCall, 0, OpPrint, OpEof >>, << Number(7) >>)

\* again() { return again(); }, the callee read from the frame's slot 0
AsmAgain ==
    Assemble("again", 0, << OpGetLocal, 0, OpCall, 0, OpReturn >>, <<>>)

\* script: `print again();`
AsmCallAgain ==
    Assemble("<script>", 0,
        << OpConstant, 0, OpCall, 0, OpPrint, OpEof >>, << AsmAgain >>)

\* script: `print 1; f(); print 2;` with the chunk fun_decl gives `fun f() {}`
AsmCallEmpty ==
    Assemble("<script>", 0,
        << OpConstant, 0, OpPrint, OpConstant, 1, OpCall, 0, OpPop,
           OpConstant, 2, OpPrint, OpEof >>,
        << Number(1), Assemble("f", 0, << OpEof >>, <<>>), Number(2) >>)

\* script: `print 0 + f(7);` with f of AsmSetParam
AsmCallSetParamSum ==
    Assemble("<script>", 0,
        << OpConstant, 0, OpConstant, 1, OpConstant, 2, OpCall, 1, OpAdd, OpPrint,
           OpEof >>,
        << Number(0), AsmSetParam, Number(7) >>)

AsmFunctions ==
    << AsmCallSetParam, AsmCallAdd, AsmNative, AsmLocals, AsmCallMismatch,
       AsmCallNumber, AsmCallAgain, AsmCallEmpty, AsmCallSetParamSum >>

AsmInputs == {Input("asm", i, "", 0, 0) : i \in 1..Len(AsmFunctions)}

Inputs == SourceInputs \cup AsmInputs

(***************************************************************************)
(* Scanner (scanner.rs)                                                    *)
(*                                                                         *)
(* A source is a sequence of characters.  Rust keeps it as UTF-8 bytes:    *)
(* source.len() and the slices source[a..b] count bytes, chars().nth(n)    *)
(* counts characters.  EAcute stands for a character of two bytes.  start, *)
(* current and line are u16; the sources here are far too short to wrap    *)
(* them.  The sources have no digit, so number() is never called.          *)
(***************************************************************************)
Quote == "\""

Newline == "\n"

EAcute == "e-acute"

\* what peek() returns at the end of the source
Nul == "\\0"

\* no character: chars().nth(n) was None and expect() panicked
NoChar == ""

Letters ==
    {"a", "b", "c", "d", "e", "f", "g", "h", "i", "j", "k", "l", "m", "n", "o",
     "p", "q", "r", "s", "t", "u", "v", "w", "x", "y", "z"}

\* char::len_utf8
LenUtf8(c) == IF c = EAcute THEN 2 ELSE 1

\* char::is_alphabetic, char::is_alphanumeric on the characters of the sources
IsAlphabetic(c) == c \in Letters \cup {EAcute}

IsAlphanumeric(c) == IsAlphabetic(c)

\* the byte offset at which the (n+1)-th character of source begins
RECURSIVE ByteOffset(_, _)
ByteOffset(source, n) ==
    IF n = 0 THEN 0 ELSE ByteOffset(source, n - 1) + LenUtf8(source[n])

\* source.len()
SourceLen(source) == ByteOffset(source, Len(source))

\* the number of characters before byte offset b, or -1 when b is past the
\* end or inside a character
CharsBefore(source, b) ==
    LET ns == {n \in 0..Len(source) : ByteOffset(source, n) = b}
    IN  IF ns = {} THEN -1 ELSE CHOOSE n \in ns : TRUE

\* &source[a..b]: << text >>, or <<>> when the slice panics
Slice(source, a, b) ==
    LET from == CharsBefore(source, a)
        to   == CharsBefore(source, b)
    IN  IF a > b \/ from = -1 \/ to = -1 THEN <<>>
        ELSE << SubSeq(source, from + 1, to) >>

\* Scanner::new
ScannerNew(source) ==
    [source |-> source, tokens |-> <<>>, errors |-> <<>>,
     start |-> 0, current |-> 0, line |-> 1, status |-> "ok", err |-> ""]

NoScanner == ScannerNew(<<>>)

ScanOk(s) == s.status = "ok"

\* a panic inside the scanner
ScanPanic(s, message) == [s EXCEPT !.status = "panic", !.err = message]

TokenType(kind, v) == [kind |-> kind, v |-> v]

Token(typ, lexeme, line) == [typ |-> typ, lexeme |-> lexeme, line |-> line]

ScannerError(message, line) == [message |-> message, line |-> line]

IsAtEnd(s) == s.current >= SourceLen(s.source)

\* peek: NoChar when expect() panics
PeekChar(s) ==
    IF IsAtEnd(s) THEN Nul
    ELSE IF s.current + 1 \in DOMAIN s.source THEN s.source[s.current + 1]
    ELSE NoChar

\* advance: the character is PeekChar(s), read before
Advance(s) == [s EXCEPT !.current = @ + 1]

AddToken(s, typ) ==
    LET text == Slice(s.source, s.start, s.current)
    IN  IF text = <<>> THEN ScanPanic(s, "byte index out of bounds or not a char boundary")
        ELSE [s EXCEPT !.tokens = Append(@, Token(typ, text[1], s.line))]

AddError(s, message) ==
    [s EXCEPT !.errors = Append(@, ScannerError(message, s.line))]

IncrementLine(s) == [s EXCEPT !.line = @ + 1]

\* current_match: << matched, scanner >>
CurrentMatch(s, expected) ==
    IF IsAtEnd(s) THEN << FALSE, s >>
    ELSE IF PeekChar(s) = NoChar THEN << FALSE, ScanPanic(s, "Couldn't peek character from source") >>
    ELSE IF PeekChar(s) # expected THEN << FALSE, s >>
    ELSE << TRUE, Advance(s) >>

\* the while loop of string(); c is the character advance() returned last:
\* << scanner, nb_lines >>
RECURSIVE StringLoop(_, _, _)
StringLoop(s, c, nb_lines) ==
    IF c = NoChar THEN << ScanPanic(s, "Couldn't peek character from source"), nb_lines >>
    ELSE IF c = Quote THEN << s, nb_lines >>
    ELSE IF IsAtEnd(s) THEN << AddError(s, "Unterminated string."), nb_lines >>
    ELSE StringLoop(Advance(s), PeekChar(s),
                    IF c = Newline THEN nb_lines + 1 ELSE nb_lines)

\* string(): the token is recorded before the lines are counted up
ScanString(s) ==
    LET r  == StringLoop(Advance(s), PeekChar(s), 0)
        s1 == r[1]
        string_literal == Slice(s1.source, s1.start + 1, s1.current - 1)
    IN  IF ~ScanOk(s1) THEN s1
        ELSE IF string_literal = <<>>
        THEN ScanPanic(s1, "byte index out of bounds or not a char boundary")
        ELSE LET s2 == AddToken(s1, TokenType("Str", string_literal[1]))
             IN  IF ScanOk(s2) THEN [s2 EXCEPT !.line = @ + r[2]] ELSE s2

\* the reserved keywords of identifier()
Keywords ==
    (<<"a", "n", "d">> :> "And") @@ (<<"n", "o", "t">> :> "Not") @@
    (<<"s", "t", "r", "u", "c", "t">> :> "Struct") @@
    (<<"e", "l", "s", "e">> :> "Else") @@ (<<"f", "a", "l", "s", "e">> :> "False") @@
    (<<"f", "u", "n">> :> "Fun") @@ (<<"f", "o", "r">> :> "For") @@
    (<<"i", "f">> :> "If") @@ (<<"n", "u", "l", "l">> :> "Null") @@
    (<<"o", "r">> :> "Or") @@ (<<"r", "e", "t", "u", "r", "n">> :> "Return") @@
    (<<"s", "u", "p", "e", "r">> :> "Super") @@ (<<"s", "e", "l", "f">> :> "Slf") @@
    (<<"t", "r", "u", "e">> :> "True") @@ (<<"l", "e", "t">> :> "Let") @@
    (<<"w", "h", "i", "l", "e">> :> "While") @@
    (<<"p", "r", "i", "n", "t">> :> "Print")

\* the while loop of identifier()
RECURSIVE IdentifierLoop(_)
IdentifierLoop(s) ==
    IF PeekChar(s) = NoChar THEN ScanPanic(s, "Couldn't peek character from source")
    ELSE IF IsAlphanumeric(PeekChar(s)) THEN IdentifierLoop(Advance(s))
    ELSE s

Identifier(s) ==
    LET s1 == IdentifierLoop(s)
        identifier == Slice(s1.source, s1.start, s1.current)
    IN  IF ~ScanOk(s1) THEN s1
        ELSE IF identifier = <<>>
        THEN ScanPanic(s1, "byte index out of bounds or not a char boundary")
        ELSE IF identifier[1] \in DOMAIN Keywords
        THEN AddToken(s1, TokenType(Keywords[identifier[1]], <<>>))
        ELSE AddToken(s1, TokenType("Identifier", identifier[1]))

\* the while loop of a comment
RECURSIVE CommentLoop(_)
CommentLoop(s) ==
    IF PeekChar(s) = NoChar THEN ScanPanic(s, "Couldn't peek character from source")
    ELSE IF PeekChar(s) # Newline /\ ~IsAtEnd(s) THEN CommentLoop(Advance(s))
    ELSE s

\* the tokens of one character
SingleTokens ==
    ("(" :> "LeftParen") @@ (")" :> "RightParen") @@ ("{" :> "LeftBrace") @@
    ("}" :> "RightBrace") @@ ("," :> "Comma") @@ ("." :> "Dot") @@
    ("-" :> "Minus") @@ ("+" :> "Plus") @@ (";" :> "Semicolon") @@ ("*" :> "Star")

\* the tokens of one character that a following = makes another token
DoubleTokens ==
    ("!" :> << "BangEqual", "Bang" >>) @@ ("=" :> << "EqualEqual", "Equal" >>) @@
    (">" :> << "GreaterEqual", "Greater" >>) @@ ("<" :> << "LessEqual", "Less" >>)

\* scan_token
ScanToken(s) ==
    LET c  == PeekChar(s)
        s1 == Advance(s)
    IN  IF c = NoChar THEN ScanPanic(s, "Couldn't peek character from source")
        ELSE IF c \in DOMAIN SingleTokens
        THEN AddToken(s1, TokenType(SingleTokens[c], <<>>))
        ELSE IF c \in DOMAIN DoubleTokens
        THEN LET m == CurrentMatch(s1, "=")
             IN  IF ~ScanOk(m[2]) THEN m[2]
                 ELSE AddToken(m[2], TokenType(DoubleTokens[c][IF m[1] THEN 1 ELSE 2], <<>>))
        ELSE IF c = "/"
        THEN LET m == CurrentMatch(s1, "/")
             IN  IF ~ScanOk(m[2]) THEN m[2]
                 ELSE IF m[1] THEN CommentLoop(m[2])
                 ELSE AddToken(m[2], TokenType("Slash", <<>>))
        ELSE IF c = Quote THEN ScanString(s1)
        ELSE IF c \in {" ", "\t", "\r"} THEN s1
        ELSE IF c = Newline THEN IncrementLine(s1)
        ELSE IF IsAlphabetic(c) THEN Identifier(s1)
        ELSE AddError(s1, "Unexpected character: " \o c \o ".")

(***************************************************************************)
(* The state machine: main.rs `run` from the parsed program on.            *)
(*   phase "compile"  Compiler::run is in its loop over the declarations   *)
(*   phase "compiled" Compiler::run returned Ok                            *)
(*   phase "run"      VM::run is at the top of its loop                    *)
(*   phase "exit"     the process ended; outcome says how                  *)
(* pre, last, out and ghost record what happened; the program has no such  *)
(* fields.  pre is the VM before the last instruction, last its opcode and *)
(* offset, out the lines PRINT wrote.  ghost.stmt_depth is the stack depth *)
(* when the expression statement being executed began; ghost.local_val     *)
(* maps a local's index to the value the source program gave the local     *)
(* (its initializer's value, then the value of each assignment to it);     *)
(* ghost.bound maps a global's name to the value DEFINE_GLOBAL or          *)
(* SET_GLOBAL bound to it last; ghost.calls[d] is the value stack below    *)
(* the function of frame d when the CALL that made the frame ran;          *)
(* ghost.depth_at[o] is the depth of the value stack at the last dispatch  *)
(* of the instruction at offset o of a compiled script;                    *)
(* ghost.writes lists the (byte, line) pairs handed to Chunk::write and    *)
(* ghost.lookup is <<offset, answer>> of the last line lookup, both in the *)
(* specification of the chunk alone (SpecWrite).                           *)
(***************************************************************************)
VARIABLES input, phase, todo, scanner, compiler, vm, outcome, pre, last, out, ghost

vars == << input, phase, todo, scanner, compiler, vm, outcome, pre, last, out, ghost >>

NoVM == [frames |-> <<>>, current_frame_index |-> 0, stack |-> <<>>,
         globals |-> NoGlobals]

NoOutcome == [status |-> "", msg |-> "", line |-> 0, exit_code |-> -1]

NoLast == [op |-> -1, ip |-> -1]

NoGhost == [stmt_depth |-> -1, local_val |-> [slot \in {} |-> Boolean(FALSE)],
            bound |-> NoGlobals, calls |-> <<>>, depth_at |-> [o \in {} |-> 0],
            writes |-> <<>>, lookup |-> <<>>, nest |-> 0,
            scanned |-> NoScanner]

\* std::process::exit codes of main.rs; a panic ends the process with 101
ExitCode(status) ==
    CASE status = "ok"            -> 0
      [] status = "scan_error"    -> 65
      [] status = "compile_error" -> 65
      [] status = "runtime_error" -> 70
      [] status = "panic"         -> 101

Outcome(status, msg, line) ==
    [status |-> status, msg |-> msg, line |-> line, exit_code |-> ExitCode(status)]

IsSource == input.fam # "asm"

Init ==
    /\ input \in Inputs
    /\ phase = IF input.fam = "asm" THEN "run" ELSE "compile"
    /\ todo = IF input.fam = "asm" THEN <<>> ELSE Program(input)
    /\ compiler = CompilerNew(ScriptType)
    /\ vm = IF input.fam = "asm" THEN VMNew(AsmFunctions[input.i]) ELSE NoVM
    /\ outcome = NoOutcome
    /\ pre = NoVM
    /\ last = NoLast
    /\ out = <<>>
    /\ ghost = NoGhost
    /\ scanner = NoScanner

\* one turn of the loop of Compiler::run.  A u8 operation that wrapped in
\* the turn is where a debug build panics
CompileDeclaration ==
    /\ phase = "compile"
    /\ todo # <<>>
    /\ \E r \in {Declaration(compiler, Head(todo))}, build \in Builds :
          \E c \in {IF r.overflow /\ build = "debug"
                    THEN Panic(compiler, "attempt to add with overflow")
                    ELSE [r EXCEPT !.overflow = FALSE]} :
             /\ compiler' = c
             /\ todo' = Tail(todo)
             /\ phase' = IF Ok(c) THEN "compile" ELSE "exit"
             /\ outcome' = IF Ok(c) THEN outcome
                           ELSE Outcome(IF c.status = "err" THEN "compile_error"
                                        ELSE "panic",
                                        c.err, c.current_line)
    /\ UNCHANGED << input, scanner, vm, pre, last, out, ghost >>

\* the end of Compiler::run: EOF is emitted and Ok returned
CompileFinish ==
    /\ phase = "compile"
    /\ todo = <<>>
    /\ compiler' = EmitByte(compiler, OpEof)
    /\ phase' = "compiled"
    /\ UNCHANGED << input, scanner, todo, vm, outcome, pre, last, out, ghost >>

\* main.rs: VM::new(compiler.function)
StartVM ==
    /\ phase = "compiled"
    /\ vm' = VMNew(Function(compiler.function.name, compiler.function.arity,
                            compiler.function.chunk))
    /\ phase' = "run"
    /\ UNCHANGED << input, scanner, todo, compiler, outcome, pre, last, out, ghost >>

\* the offset of the opcode run() is about to read
CurrentIp == CurrentFrame(vm).ip

\* run() reads the opcode `name` next
Dispatch(name) ==
    /\ phase = "run"
    /\ ReadByte(vm) # <<>>
    /\ OpCodeTryFrom(ReadByte(vm)[1]) = name

\* the VM once the opcode byte is read
Fetched == ReadByte(vm)[2]

\* ghost.local_val after an instruction of a compiled script: SET_LOCAL gives
\* its local the assigned value, and reaching the offset after a local let's
\* initializer from before it gives the new local the initializer's value
LocalValAfter(r) ==
    LET op == ReadByte(vm)[1]
        set == IF op = OpSetLocal /\ r.st = "running"
               THEN {<< GetChunk(vm)[1].code[CurrentIp + 2], Peek(r.v, 0) >>}
               ELSE {}
        decl == IF r.st = "running" /\ HasFrame(r.v) /\ r.v.stack # <<>>
                THEN {<< m[2], Peek(r.v, 0) >> :
                        m \in {m \in compiler.lets :
                                 m[1] = CurrentFrame(r.v).ip /\ CurrentIp < m[1]}}
                ELSE {}
        new == set \cup decl
        slots == {m[1] : m \in new}
    IN  [slot \in DOMAIN ghost.local_val \cup slots |->
            IF slot \in {m[1] : m \in decl} THEN (CHOOSE m \in decl : m[1] = slot)[2]
            ELSE IF slot \in slots THEN (CHOOSE m \in set : m[1] = slot)[2]
            ELSE ghost.local_val[slot]]

\* ghost.bound after an instruction: DEFINE_GLOBAL and SET_GLOBAL that went
\* through bind the name their operand names to the value they found on top
BoundAfter(r) ==
    IF ReadByte(vm)[1] \in {OpDefineGlobal, OpSetGlobal} /\ r.st = "running"
    THEN Insert(ghost.bound,
                GetChunk(vm)[1].constants[GetChunk(vm)[1].code[CurrentIp + 2] + 1].s,
                Peek(vm, 0))
    ELSE ghost.bound

\* ghost.calls after an instruction: a CALL that went through records the
\* stack below the function its frame runs, the one at the frame's base
CallsAfter(r) ==
    IF ReadByte(vm)[1] = OpCall /\ r.st = "running"
    THEN Append(SubSeq(ghost.calls, 1, Len(vm.frames) - 1),
                SubSeq(vm.stack, 1, CurrentFrame(r.v).slots_start_index))
    ELSE ghost.calls

\* ghost.depth_at after an instruction: the depth of the value stack when the
\* instruction was dispatched is the one noted for its offset
DepthAtAfter ==
    [o \in DOMAIN ghost.depth_at \cup {CurrentIp} |->
        IF o = CurrentIp THEN Len(vm.stack) ELSE ghost.depth_at[o]]

\* the instruction's result r becomes the next state
Apply(r) ==
    /\ vm' = r.v
    /\ pre' = vm
    /\ last' = [op |-> ReadByte(vm)[1], ip |-> CurrentIp]
    /\ out' = out \o r.printed
    /\ phase' = IF r.st = "running" THEN "run" ELSE "exit"
    /\ outcome' = IF r.st = "running" THEN outcome ELSE Outcome(r.st, r.msg, r.line)
    /\ ghost' = [ghost EXCEPT
                     !.stmt_depth = IF IsSource /\ \E m \in compiler.stmts : m[1] = CurrentIp
                                    THEN Len(vm.stack) ELSE @,
                     !.local_val = IF IsSource THEN LocalValAfter(r) ELSE @,
                     !.bound = BoundAfter(r),
                     !.calls = CallsAfter(r),
                     !.depth_at = IF IsSource THEN DepthAtAfter ELSE @]
    /\ UNCHANGED << input, scanner, todo, compiler >>

\* read_byte or the conversion of the byte to an OpCode panics
DispatchPanic ==
    /\ phase = "run"
    /\ \/ ReadByte(vm) = <<>>
       \/ /\ ReadByte(vm) # <<>>
          /\ OpCodeTryFrom(ReadByte(vm)[1]) = ""
    /\ phase' = "exit"
    /\ outcome' = Outcome("panic", "", 0)
    /\ pre' = vm
    /\ last' = NoLast
    /\ UNCHANGED << input, scanner, todo, compiler, vm, out, ghost >>

DoConstant == Dispatch("OpConstant") /\ Apply(ExecConstant(Fetched))
DoNegate == Dispatch("OpNegate") /\ Apply(ExecNegate(Fetched))
DoAdd == Dispatch("OpAdd") /\ Apply(ExecAdd(Fetched))
DoSubtract == Dispatch("OpSubtract") /\ Apply(ExecBinaryOp(Fetched, OpSubtract))
DoMultiply == Dispatch("OpMultiply") /\ Apply(ExecBinaryOp(Fetched, OpMultiply))
DoDivide == Dispatch("OpDivide") /\ Apply(ExecBinaryOp(Fetched, OpDivide))
DoEqualEqual == Dispatch("OpEqualEqual") /\ Apply(ExecEqualEqual(Fetched))
DoBangEqual == Dispatch("OpBangEqual") /\ Apply(ExecBangEqual(Fetched))
DoLess == Dispatch("OpLess") /\ Apply(ExecBinaryOp(Fetched, OpLess))
DoLessEqual == Dispatch("OpLessEqual") /\ Apply(ExecBinaryOp(Fetched, OpLessEqual))
DoGreater == Dispatch("OpGreater") /\ Apply(ExecBinaryOp(Fetched, OpGreater))
DoGreaterEqual == Dispatch("OpGreaterEqual") /\ Apply(ExecBinaryOp(Fetched, OpGreaterEqual))
DoReturn == Dispatch("OpReturn") /\ \E build \in Builds : Apply(ExecReturn(Fetched, build))
DoTrue == Dispatch("OpTrue") /\ Apply(ExecTrue(Fetched))
DoFalse == Dispatch("OpFalse") /\ Apply(ExecFalse(Fetched))
DoNot == Dispatch("OpNot") /\ Apply(ExecNot(Fetched))
DoPrint == Dispatch("OpPrint") /\ Apply(ExecPrint(Fetched))
DoDefineGlobal == Dispatch("OpDefineGlobal") /\ Apply(ExecDefineGlobal(Fetched))
DoGetGlobal == Dispatch("OpGetGlobal") /\ Apply(ExecGetGlobal(Fetched))
DoSetGlobal == Dispatch("OpSetGlobal") /\ Apply(ExecSetGlobal(Fetched))
DoPop == Dispatch("OpPop") /\ Apply(ExecPop(Fetched))
DoPopN == Dispatch("OpPopN") /\ \E build \in Builds : Apply(ExecPopN(Fetched, build))
DoGetLocal == Dispatch("OpGetLocal") /\ Apply(ExecGetLocal(Fetched))
DoSetLocal == Dispatch("OpSetLocal") /\ Apply(ExecSetLocal(Fetched))
DoJump == Dispatch("OpJump") /\ Apply(ExecJump(Fetched))
DoJumpIfTrue == Dispatch("OpJumpIfTrue") /\ Apply(ExecJumpIfTrue(Fetched))
DoJumpIfFalse == Dispatch("OpJumpIfFalse") /\ Apply(ExecJumpIfFalse(Fetched))
DoLoop == Dispatch("OpLoop") /\ \E build \in Builds : Apply(ExecLoop(Fetched, build))
DoCall ==
    /\ Dispatch("OpCall")
    /\ Len(vm.frames) < MaxFrames
    /\ \E build \in Builds : Apply(ExecCall(Fetched, build))
DoEof == Dispatch("OpEof") /\ Apply(ExecEof(Fetched))

Next ==
    \/ CompileDeclaration \/ CompileFinish \/ StartVM \/ DispatchPanic
    \/ DoConstant \/ DoNegate \/ DoAdd \/ DoSubtract \/ DoMultiply \/ DoDivide
    \/ DoEqualEqual \/ DoBangEqual \/ DoLess \/ DoLessEqual \/ DoGreater
    \/ DoGreaterEqual \/ DoReturn \/ DoTrue \/ DoFalse \/ DoNot \/ DoPrint
    \/ DoDefineGlobal \/ DoGetGlobal \/ DoSetGlobal \/ DoPop \/ DoPopN
    \/ DoGetLocal \/ DoSetLocal \/ DoJump \/ DoJumpIfTrue \/ DoJumpIfFalse
    \/ DoLoop \/ DoCall \/ DoEof

Spec == Init /\ [][Next]_vars

(***************************************************************************)
(* The same pipeline on the programs of SizedInputs, with the instructions *)
(* those programs reach.                                                   *)
(***************************************************************************)
InitSized ==
    /\ input \in SizedInputs
    /\ phase = "compile"
    /\ todo = Program(input)
    /\ compiler = CompilerNew(ScriptType)
    /\ vm = NoVM
    /\ outcome = NoOutcome
    /\ pre = NoVM
    /\ last = NoLast
    /\ out = <<>>
    /\ ghost = NoGhost
    /\ scanner = NoScanner

NextSized ==
    \/ CompileDeclaration \/ CompileFinish \/ StartVM \/ DispatchPanic
    \/ DoConstant \/ DoAdd \/ DoEqualEqual \/ DoLess \/ DoTrue \/ DoFalse \/ DoNot
    \/ DoPrint \/ DoDefineGlobal \/ DoGetGlobal \/ DoSetGlobal \/ DoPop \/ DoPopN
    \/ DoGetLocal \/ DoSetLocal \/ DoJump \/ DoJumpIfTrue \/ DoJumpIfFalse \/ DoLoop \/ DoEof

SpecSized == InitSized /\ [][NextSized]_vars

(***************************************************************************)
(* The chunk alone: Chunk::write is public, so a chunk can be built by any *)
(* sequence of writes, with the lines in any order, and asked for the line *)
(* of any offset.  The chunk is the one of `compiler`; phase is "write".   *)
(***************************************************************************)
InitWrite ==
    /\ input = Input("write", 0, "", 0, 0)
    /\ phase = "write"
    /\ todo = <<>>
    /\ compiler = CompilerNew(ScriptType)
    /\ vm = NoVM
    /\ outcome = NoOutcome
    /\ pre = NoVM
    /\ last = NoLast
    /\ out = <<>>
    /\ ghost = NoGhost
    /\ scanner = NoScanner

\* chunk.write(op_code, lineno)
ChunkWrite ==
    /\ phase = "write"
    /\ Count(compiler.function.chunk) < MaxWrites
    /\ \E op_code \in {OpPop}, lineno \in 0..MaxLine :
          /\ compiler' = [compiler EXCEPT !.function.chunk = Write(@, op_code, lineno)]
          /\ ghost' = [ghost EXCEPT !.writes = Append(@, <<op_code, lineno>>),
                                    !.lookup = <<>>]
    /\ UNCHANGED << input, scanner, phase, todo, vm, outcome, pre, last, out >>

\* chunk.get_lineno(offset), for the offsets of the chunk and the one after
\* the last
ChunkLookup ==
    /\ phase = "write"
    /\ \E offset \in 0..Count(compiler.function.chunk) :
          ghost' = [ghost EXCEPT
                       !.lookup = <<offset, ChunkGetLineno(compiler.function.chunk, offset)>>]
    /\ UNCHANGED << input, scanner, phase, todo, compiler, vm, outcome, pre, last, out >>

NextWrite == ChunkWrite \/ ChunkLookup

SpecWrite == InitWrite /\ [][NextWrite]_vars

(***************************************************************************)
(* Compiler::block step by step on the programs ProgNest(n): phase "nest", *)
(* todo holds the pieces block() has yet to meet and ghost.nest counts the *)
(* blocks entered and not left.  The depths go up to 257, one past the     *)
(* 256 values of the u8 scope_depth; input.op is the build, debug or       *)
(* release.                                                                *)
(***************************************************************************)
NestInputs ==
    {Input("nest", n, build, 0, 0) :
        n \in SmallSizes \cup {256 - 1, 256, 256 + 1}, build \in Builds}

InitNest ==
    /\ input \in NestInputs
    /\ phase = "nest"
    /\ todo = Program(input)
    /\ compiler = CompilerNew(ScriptType)
    /\ vm = NoVM
    /\ outcome = NoOutcome
    /\ pre = NoVM
    /\ last = NoLast
    /\ out = <<>>
    /\ ghost = NoGhost
    /\ scanner = NoScanner

\* the compiler r a piece of block() left becomes the next state; a u8
\* operation that wrapped is where a debug build (input.op) panics
NestApply(r, nest) ==
    \E build \in {input.op} :
        \E c \in {IF r.overflow /\ build = "debug"
                  THEN Panic(compiler, "attempt to add with overflow")
                  ELSE [r EXCEPT !.overflow = FALSE]} :
           /\ compiler' = c
           /\ todo' = Tail(todo)
           /\ phase' = IF Ok(c) THEN "nest" ELSE "exit"
           /\ outcome' = IF Ok(c) THEN outcome
                         ELSE Outcome(IF c.status = "err" THEN "compile_error"
                                      ELSE "panic",
                                      c.err, c.current_line)
           /\ ghost' = [ghost EXCEPT !.nest = nest]
           /\ UNCHANGED << input, scanner, vm, pre, last, out >>

\* block() is entered
NestEnter ==
    /\ phase = "nest" /\ todo # <<>> /\ Head(todo).tok = "{"
    /\ NestApply(BlockEnter(compiler), ghost.nest + 1)

\* one turn of `for decl in declarations { self.declaration(decl)?; }`
NestDeclaration ==
    /\ phase = "nest" /\ todo # <<>> /\ Head(todo).tok = "decl"
    /\ \E r \in {Declaration(compiler, Head(todo).decl)} : NestApply(r, ghost.nest)

\* the rest of block() after its declarations
NestLeave ==
    /\ phase = "nest" /\ todo # <<>> /\ Head(todo).tok = "}"
    /\ NestApply(BlockExit(compiler), ghost.nest - 1)

NextNest == NestEnter \/ NestDeclaration \/ NestLeave

SpecNest == InitNest /\ [][NextNest]_vars

(***************************************************************************)
(* Scanner::scan_tokens step by step, as main.rs `run` calls it on every   *)
(* source of at most MaxSource characters of SourceChars: phase "scan" is  *)
(* inside the while loop, "scanned" is Ok(tokens) handed to the parser,    *)
(* "exit" is Err(errors) and exit(65), or a panic.  ghost.scanned is the   *)
(* scanner as the last call of scan_token found it.                        *)
(***************************************************************************)
MaxSource == 5

SourceChars == {"(", Quote, Newline, "a", "/", EAcute}

Sources == UNION {[1..n -> SourceChars] : n \in 0..MaxSource}

InitScan ==
    /\ input = Input("scan", 0, "", 0, 0)
    /\ phase = "scan"
    /\ todo = <<>>
    /\ scanner \in {ScannerNew(source) : source \in Sources}
    /\ compiler = CompilerNew(ScriptType)
    /\ vm = NoVM
    /\ outcome = NoOutcome
    /\ pre = NoVM
    /\ last = NoLast
    /\ out = <<>>
    /\ ghost = NoGhost

\* one turn of the while loop of scan_tokens
ScanTokensLoop ==
    /\ phase = "scan" /\ ~IsAtEnd(scanner)
    /\ \E s \in {ScanToken([scanner EXCEPT !.start = scanner.current])} :
          /\ scanner' = s
          /\ phase' = IF ScanOk(s) THEN "scan" ELSE "exit"
          /\ outcome' = IF ScanOk(s) THEN outcome ELSE Outcome("panic", s.err, s.line)
    /\ ghost' = [ghost EXCEPT !.scanned = scanner]
    /\ UNCHANGED << input, todo, compiler, vm, pre, last, out >>

\* scan_tokens after the loop: Err(errors), which run() answers with
\* exit(65), or the tokens with Eof added
ScanTokensEnd ==
    /\ phase = "scan" /\ IsAtEnd(scanner)
    /\ IF Len(scanner.errors) > 0
       THEN /\ scanner' = [scanner EXCEPT !.status = "err"]
            /\ phase' = "exit"
            /\ outcome' = Outcome("scan_error", scanner.errors[1].message,
                                  scanner.errors[1].line)
       ELSE /\ scanner' = [scanner EXCEPT
                              !.tokens = Append(@, Token(TokenType("Eof", <<>>), <<>>,
                                                         scanner.line))]
            /\ phase' = "scanned"
            /\ outcome' = outcome
    /\ UNCHANGED << input, todo, compiler, vm, pre, last, out, ghost >>

NextScan == ScanTokensLoop \/ ScanTokensEnd

SpecScan == InitScan /\ [][NextScan]_vars

(***************************************************************************)
(* What the properties below speak about                                   *)
(***************************************************************************)
\* the operand byte of the last instruction
LastOperand == GetChunk(pre)[1].code[last.ip + 2]

\* the last instruction was `op`, and run() went on after it
Ran(op) == phase = "run" /\ last.op = op

\* the last instruction was `op`, whatever came of it
Did(op) == phase \in {"run", "exit"} /\ last.op = op

\* the two operands a binary instruction found: left below right
LeftOperand == pre.stack[Len(pre.stack) - 1]

RightOperand == pre.stack[Len(pre.stack)]

\* the stack without the operands of a binary / unary instruction
BelowTwo == SubSeq(pre.stack, 1, Len(pre.stack) - 2)

BelowOne == SubSeq(pre.stack, 1, Len(pre.stack) - 1)

\* the frames of `pre` with the current frame's ip moved by n
FramesAfter(n) ==
    [pre.frames EXCEPT ![pre.current_frame_index + 1].ip = @ + n]

\* the input is the program `prog` of FixedPrograms
InputIs(prog) == input.fam = "fixed" /\ FixedPrograms[input.i] = prog

\* an atom that is an integer literal or its negation, and its integer
IsIntAtom(e) ==
    \/ e.k = "Literal" /\ e.lit = "Number"
    \/ e.k = "Unary" /\ e.operator = "Minus" /\ e.right.k = "Literal"
       /\ e.right.lit = "Number"

IntOf(e) == IF e.k = "Literal" THEN e.v.n ELSE 0 - e.right.v.n

BoolString(b) == IF b THEN "true" ELSE "false"

C2_SlotIsTheVariable ==
    (IsSource /\ Ran(OpGetLocal) /\ LastOperand \in DOMAIN ghost.local_val)
        => Peek(vm, 0) = ghost.local_val[LastOperand]

(***************************************************************************)
(* C3 *)
(***************************************************************************)
\* C3: SET_LOCAL slot stores a copy of the top of the stack in
\* stack[base + slot], base being the base of the executing frame; no other
\* slot changes, nothing is popped, and the frames (but for ip) and the
\* globals stay as they were.
C3_SetLocalStoresAtBasePlusSlot ==
    Ran(OpSetLocal) =>
        LET base == CurrentFrame(pre).slots_start_index
            slot == LastOperand
        IN  /\ base + slot + 1 \in DOMAIN pre.stack
            /\ vm.stack = [pre.stack EXCEPT ![base + slot + 1] = RightOperand]
            /\ vm.frames = FramesAfter(2)
            /\ vm.current_frame_index = pre.current_frame_index
            /\ vm.globals = pre.globals

(***************************************************************************)
(* C4 *)
(***************************************************************************)
\* C4: `let s = 0; for (let i = 1; i <= 5; i = i + 1) s = s + i; print s;`
\* runs to successful completion and prints exactly 15.
C4_ForLoopPrints15 ==
    (InputIs(ProgFor) /\ phase = "exit") => (outcome.status = "ok" /\ out = << "15" >>)

(***************************************************************************)
(* C5 *)
(***************************************************************************)
\* C5: `fun add(a, b) { return a + b; } print add(2, 40);` compiles, runs to
\* successful completion and prints exactly 42.
C5_CallAddPrints42 ==
    (InputIs(ProgAdd) /\ phase = "exit") => (outcome.status = "ok" /\ out = << "42" >>)

(***************************************************************************)
(* C6 *)
(***************************************************************************)
\* interpretation ended with a runtime error and no value on the stack
EndedWithRuntimeError ==
    /\ phase = "exit"
    /\ outcome.status = "runtime_error"
    /\ outcome.exit_code = 70
    /\ vm.stack = <<>>

\* C6: ADD pops two operands and pushes their sum when both are Numbers, the
\* left string followed by the right one when both are Strings; for any other
\* pair it pushes nothing and interpretation ends with the runtime error
\* "Operands must be two numbers or two strings".  `print 1 + 1;` prints 2,
\* `print "a" + "b";` prints ab, and `print 1 + "x";` ends with that error
\* naming line 1.
C6_AddSemantics ==
    /\ (Did(OpAdd) /\ Len(pre.stack) >= 2) =>
          IF LeftOperand.t = "Number" /\ RightOperand.t = "Number"
          THEN /\ phase = "run"
               /\ vm.stack = Append(BelowTwo, NumAdd(LeftOperand, RightOperand))
          ELSE IF LeftOperand.t = "Str" /\ RightOperand.t = "Str"
          THEN /\ phase = "run"
               /\ vm.stack = Append(BelowTwo, Str(LeftOperand.s \o RightOperand.s))
          ELSE /\ EndedWithRuntimeError
               /\ outcome.msg = "Operands must be two numbers or two strings"
    /\ (input.fam = "print" /\ input.op = "Plus" /\ phase = "exit") =>
          /\ (Atoms[input.a] = NumLit(1) /\ Atoms[input.b] = NumLit(1))
                => (outcome.status = "ok" /\ out = << "2" >>)
          /\ (Atoms[input.a] = StrLit("a") /\ Atoms[input.b] = StrLit("b"))
                => (outcome.status = "ok" /\ out = << "ab" >>)
    /\ (InputIs(ProgAddError) /\ phase = "exit") =>
          /\ EndedWithRuntimeError
          /\ outcome.msg = "Operands must be two numbers or two strings"
          /\ outcome.line = 1
          /\ out = <<>>

\* `print 1 + "x";` has ended with the error
C6_Witness ==
    /\ InputIs(ProgAddError)
    /\ Did(OpAdd)
    /\ LeftOperand = Number(1) /\ RightOperand = Str("x")
    /\ outcome.status = "runtime_error"

(***************************************************************************)
(* C7 *)
(***************************************************************************)
OrderedOps == {OpSubtract, OpDivide, OpLess, OpLessEqual, OpGreater, OpGreaterEqual}

OrderedOperators == {"Minus", "Slash", "Less", "LessEqual", "Greater", "GreaterEqual"}

Abs(x) == IF x < 0 THEN 0 - x ELSE x

\* what `print x op y;` writes for the integers x and y, where the integers
\* decide it (a zero result of - and / has a sign, a fraction has digits)
Expected(operator, x, y) ==
    CASE operator = "Less"         -> << BoolString(x < y) >>
      [] operator = "LessEqual"    -> << BoolString(x <= y) >>
      [] operator = "Greater"      -> << BoolString(x > y) >>
      [] operator = "GreaterEqual" -> << BoolString(x >= y) >>
      [] operator = "Minus"        ->
            IF x - y = 0 THEN <<>>
            ELSE << (IF x - y < 0 THEN "-" ELSE "") \o ToString(Abs(x - y)) >>
      [] operator = "Slash"        ->
            IF x = 0 \/ y = 0 THEN <<>>
            ELSE IF Abs(x) % Abs(y) # 0 THEN <<>>
            ELSE << (IF (x < 0) # (y < 0) THEN "-" ELSE "")
                    \o ToString(Abs(x) \div Abs(y)) >>

\* C7: for SUBTRACT, DIVIDE, LESS, LESS_EQUAL, GREATER and GREATER_EQUAL the
\* top of the stack is the right operand and the value below it the left one:
\* the instruction replaces them by left op right, and `print a op b;` for
\* integer operands a and b prints the result of (a) op (b).
C7_OperandOrder ==
    /\ (phase = "run" /\ last.op \in OrderedOps) =>
          vm.stack = Append(BelowTwo, BinaryOpValue(last.op, LeftOperand, RightOperand))
    /\ (/\ input.fam = "print" /\ input.op \in OrderedOperators
        /\ IsIntAtom(Atoms[input.a]) /\ IsIntAtom(Atoms[input.b])) =>
          LET want == Expected(input.op, IntOf(Atoms[input.a]), IntOf(Atoms[input.b]))
          IN  /\ (phase = "run" /\ last.op = BinaryOpCode(input.op)) =>
                    /\ LeftOperand.n = Abs(IntOf(Atoms[input.a]))
                    /\ RightOperand.n = Abs(IntOf(Atoms[input.b]))
              /\ phase = "exit" =>
                    /\ outcome.status = "ok"
                    /\ want # <<>> => out = want

\* `print 0 - 1;` has printed -1
C7_Witness ==
    /\ input.fam = "print" /\ input.op = "Minus"
    /\ Atoms[input.a] = NumLit(0) /\ Atoms[input.b] = NumLit(1)
    /\ phase = "exit"
    /\ out = << "-1" >>

(***************************************************************************)
(* C8 *)
(***************************************************************************)
NumericOps ==
    {OpSubtract, OpMultiply, OpDivide, OpLess, OpLessEqual, OpGreater, OpGreaterEqual}

\* C8: operator type errors are runtime errors, not results.  NEGATE on a
\* non-Number, NOT on a non-Boolean (a Number or a String included) and
\* SUBTRACT, MULTIPLY, DIVIDE, LESS, LESS_EQUAL, GREATER, GREATER_EQUAL with an
\* operand that is not a Number end interpretation with a RuntimeError and
\* push no value.
C8_TypeErrors ==
    /\ (Did(OpNegate) /\ Len(pre.stack) >= 1 /\ RightOperand.t # "Number")
          => EndedWithRuntimeError
    /\ (Did(OpNot) /\ Len(pre.stack) >= 1 /\ RightOperand.t # "Boolean")
          => EndedWithRuntimeError
    /\ (/\ phase \in {"run", "exit"} /\ last.op \in NumericOps
        /\ Len(pre.stack) >= 2
        /\ (LeftOperand.t # "Number" \/ RightOperand.t # "Number"))
          => EndedWithRuntimeError

\* NOT has met a Number
C8_Witness ==
    /\ Did(OpNot)
    /\ RightOperand = Number(0)
    /\ EndedWithRuntimeError
    /\ outcome.msg = "Operand must be a boolean"

(***************************************************************************)
(* C9 *)
(***************************************************************************)
\* a VM whose stack holds a below b, about to run the instruction after the
\* opcode byte
OperandsVM(a, b) == [VMNew(AsmAdd) EXCEPT !.stack = << a, b >>]

\* what EQUAL_EQUAL and BANG_EQUAL push for the operands a (left), b (right)
EqualEqualOf(a, b) == Peek(ExecEqualEqual(OperandsVM(a, b)).v, 0)

BangEqualOf(a, b) == Peek(ExecBangEqual(OperandsVM(a, b)).v, 0)

RECURSIVE ContainsNaN(_)
\* v is NaN, or a function with NaN among the constants it is compared by
ContainsNaN(v) ==
    CASE v.t = "Number"   -> v.k = "nan"
      [] v.t = "Function" ->
            \E i \in DOMAIN v.chunk.constants : ContainsNaN(v.chunk.constants[i])
      [] OTHER            -> FALSE

\* C9 as stated: EQUAL_EQUAL on (v, v) pushes true for every value v that can
\* be on the stack, a Number produced by dividing zero by zero included.
C9_EqualityReflexive ==
    (Ran(OpEqualEqual) /\ LeftOperand = RightOperand) => Peek(vm, 0) = Boolean(TRUE)

\* C9 amended: EQUAL_EQUAL on (v, v) pushes true for every value v that holds
\* no NaN, and false when v is NaN; for the operands a and b of every
\* EQUAL_EQUAL and BANG_EQUAL, EQUAL_EQUAL(a, b) is EQUAL_EQUAL(b, a) and the
\* negation of BANG_EQUAL(a, b); values of different variants are never equal.
C9_EqualityExceptNaN ==
    /\ (Ran(OpEqualEqual) /\ LeftOperand = RightOperand) =>
          Peek(vm, 0) = Boolean(~ContainsNaN(LeftOperand))
    /\ Ran(OpEqualEqual) =>
          /\ vm.stack = Append(BelowTwo, EqualEqualOf(LeftOperand, RightOperand))
          /\ Peek(vm, 0) = EqualEqualOf(RightOperand, LeftOperand)
          /\ Peek(vm, 0).b = ~BangEqualOf(LeftOperand, RightOperand).b
          /\ LeftOperand.t # RightOperand.t => Peek(vm, 0) = Boolean(FALSE)
    /\ Ran(OpBangEqual) =>
          /\ vm.stack = Append(BelowTwo, BangEqualOf(LeftOperand, RightOperand))
          /\ Peek(vm, 0) = BangEqualOf(RightOperand, LeftOperand)
          /\ Peek(vm, 0).b = ~EqualEqualOf(LeftOperand, RightOperand).b
          /\ LeftOperand.t # RightOperand.t => Peek(vm, 0) = Boolean(TRUE)

\* NaN has been compared with itself, and false pushed
C9_Witness ==
    /\ Ran(OpEqualEqual)
    /\ LeftOperand = NaN /\ RightOperand = NaN
    /\ Peek(vm, 0) = Boolean(FALSE)

(***************************************************************************)
(* C10 *)
(***************************************************************************)
\* the truthiness the claim gives each variant
Truthy(v) ==
    CASE v.t = "Boolean"        -> v.b
      [] v.t = "Number"         -> ~(v.k = "fin" /\ v.n = 0)
      [] v.t = "Str"            -> v.s # ""
      [] v.t = "Function"       -> TRUE
      [] v.t = "NativeFunction" -> TRUE

\* the last instruction, a conditional jump, moved ip past its operand
Jumped == CurrentFrame(vm).ip # last.ip + 3

\* C10: a Boolean is truthy iff it is true, a Number is falsey iff it equals
\* 0.0, a String is falsey iff it is empty, Function and NativeFunction values
\* are always truthy, and exactly one of is_truthy and is_falsey holds of
\* every value: of every value on the stack, and as the conditional jumps
\* see the value they test.
C10_Truthiness ==
    /\ phase \in {"run", "exit"} =>
          \A i \in DOMAIN vm.stack :
              /\ IsTruthy(vm.stack[i]) = Truthy(vm.stack[i])
              /\ IsFalsey(vm.stack[i]) = ~Truthy(vm.stack[i])
    /\ Ran(OpJumpIfFalse) => (Jumped <=> ~Truthy(RightOperand))
    /\ Ran(OpJumpIfTrue) => (Jumped <=> Truthy(RightOperand))

\* `if (0) ...` has jumped to its else branch
C10_Witness ==
    /\ input.fam = "if"
    /\ Ran(OpJumpIfFalse)
    /\ RightOperand = Number(0)
    /\ Jumped

(***************************************************************************)
(* C11 *)
(***************************************************************************)
\* the constant the operand of the last instruction names
LastConstant == GetChunk(pre)[1].constants[LastOperand + 1]

\* C11: SET_GLOBAL on a name that is not in the globals map ends
\* interpretation with a runtime error and leaves the globals as they were;
\* on a name that is defined it binds the name to the value on top of the
\* stack, which stays there, and touches no other name.
C11_SetGlobal ==
    (Did(OpSetGlobal) /\ LastConstant.t = "Str") =>
        IF LastConstant.s \in DOMAIN pre.globals
        THEN pre.stack # <<>> =>
                /\ phase = "run"
                /\ vm.stack = pre.stack
                /\ DOMAIN vm.globals = DOMAIN pre.globals
                /\ \A n \in DOMAIN vm.globals :
                       vm.globals[n] = IF n = LastConstant.s THEN RightOperand
                                       ELSE pre.globals[n]
        ELSE /\ EndedWithRuntimeError
             /\ vm.globals = pre.globals
             /\ LastConstant.s \notin DOMAIN vm.globals

\* `b = 4;` with no `b` has ended the run of ProgGlobals, after `a = 2;` bound a
C11_Witness ==
    /\ InputIs(ProgGlobals)
    /\ Did(OpSetGlobal) /\ LastConstant = Str("b")
    /\ EndedWithRuntimeError
    /\ DOMAIN vm.globals = {"a"}
    /\ out = << "2", "s" >>

(***************************************************************************)
(* C12 *)
(***************************************************************************)
\* C12: GET_GLOBAL name pushes the value DEFINE_GLOBAL or SET_GLOBAL bound to
\* the name most recently, and ends interpretation with a runtime error when
\* the name was never defined; DEFINE_GLOBAL pops the value it binds, also
\* when the name is bound already.
C12_GetGlobal ==
    /\ (Did(OpGetGlobal) /\ LastConstant.t = "Str") =>
          IF LastConstant.s \in DOMAIN ghost.bound
          THEN /\ phase = "run"
               /\ vm.stack = Append(pre.stack, ghost.bound[LastConstant.s])
          ELSE EndedWithRuntimeError
    /\ (Ran(OpDefineGlobal) /\ LastConstant.t = "Str") =>
          /\ vm.stack = BelowOne
          /\ vm.globals[LastConstant.s] = RightOperand

\* `a` has been read after `let a = "s";` bound it again
C12_Witness ==
    /\ InputIs(ProgGlobals)
    /\ Ran(OpGetGlobal) /\ LastConstant = Str("a")
    /\ Peek(vm, 0) = Str("s")
    /\ out = << "2" >>

\* `print u;` has ended the run of ProgUndefined
C12_WitnessUndefined ==
    /\ InputIs(ProgUndefined)
    /\ Did(OpGetGlobal) /\ LastConstant = Str("u")
    /\ EndedWithRuntimeError
    /\ out = << "1" >>

(***************************************************************************)
(* C13 *)
(***************************************************************************)
\* the value the last instruction, a CALL, found nb_args below the top
Callee == pre.stack[Len(pre.stack) - LastOperand]

\* the last instruction was a CALL that found its callee on the stack
Called == Did(OpCall) /\ CanPeek(pre, LastOperand)

\* C13: CALL argc on a Function callee pushes exactly one new frame with
\* ip = 0 and base = (stack length) - argc - 1, so that stack[base] is the
\* callee; the value stack is unchanged by the CALL.
C13_CallPushesFrame ==
    (Called /\ Callee.t = "Function") =>
        /\ phase = "run"
        /\ vm.frames = Append(FramesAfter(2),
                              CallFrameNew(0, Len(pre.stack) - LastOperand - 1))
        /\ vm.current_frame_index = pre.current_frame_index + 1
        /\ vm.stack = pre.stack
        /\ vm.stack[CurrentFrame(vm).slots_start_index + 1] = Callee

(***************************************************************************)
(* C14 *)
(***************************************************************************)
\* C14: CALL argc ends interpretation with a runtime error, and pushes no
\* frame, when the callee is a Function whose arity differs from argc and
\* when the callee is neither a Function nor a NativeFunction.
C14_CallErrors ==
    (/\ Called
     /\ \/ Callee.t = "Function" /\ Callee.arity # LastOperand
        \/ Callee.t \notin {"Function", "NativeFunction"}) =>
        /\ EndedWithRuntimeError
        /\ Len(vm.frames) = Len(pre.frames)

(***************************************************************************)
(* C15 *)
(***************************************************************************)
\* C15: the frame stack never holds more than 64 frames; a CALL that would
\* create a 65th frame does not push it and ends interpretation with a
\* runtime error.
C15_FrameCap ==
    /\ Len(vm.frames) <= FRAMES_MAX
    /\ (Called /\ Len(pre.frames) = FRAMES_MAX) =>
          (EndedWithRuntimeError /\ Len(vm.frames) = FRAMES_MAX)

(***************************************************************************)
(* C16 *)
(***************************************************************************)
\* C16: RETURN in a non-script frame pops the result, pops that frame,
\* truncates the value stack to the frame's base and pushes the result:
\* afterwards the stack is the caller's stack as it was before the callee was
\* pushed plus the result, and execution continues in the caller at the
\* instruction following its CALL.
C16_ReturnRestoresCaller ==
    (Did(OpReturn) /\ pre.current_frame_index > 0 /\ pre.stack # <<>>) =>
        /\ phase = "run"
        /\ vm.stack = Append(SubSeq(pre.stack, 1, CurrentFrame(pre).slots_start_index),
                             RightOperand)
        /\ vm.stack = Append(ghost.calls[pre.current_frame_index], RightOperand)
        /\ vm.frames = SubSeq(pre.frames, 1, Len(pre.frames) - 1)
        /\ vm.current_frame_index = pre.current_frame_index - 1
        /\ GetChunk(vm) # <<>>
        /\ GetChunk(vm)[1].code[CurrentFrame(vm).ip - 1] = OpCall

(***************************************************************************)
(* C17 *)
(***************************************************************************)
\* C17: when RETURN executes in the script's own frame, interpretation
\* terminates: no further instruction is dispatched and the VM does not fail.
C17_ScriptReturnTerminates ==
    (Did(OpReturn) /\ pre.current_frame_index = 0) =>
        (phase = "exit" /\ outcome.status = "ok")

(***************************************************************************)
(* C18 *)
(***************************************************************************)
\* the last byte of a chunk's code
LastByte(chunk) == chunk.code[Len(chunk.code)]

\* C18: the compiler ends the script's chunk with EOF and the chunk of a user
\* function whose body does not end in a return with RETURN; EOF terminates
\* interpretation only when it is executed in the script frame.
C18_ChunkEnds ==
    /\ phase = "compiled" =>
          /\ LastByte(compiler.function.chunk) = OpEof
          /\ ~InputIs(ProgFunReturn) =>
                \A i \in DOMAIN compiler.function.chunk.constants :
                    LET constant == compiler.function.chunk.constants[i]
                    IN  constant.t = "Function" => LastByte(constant.chunk) = OpReturn
    /\ (Did(OpEof) /\ pre.current_frame_index > 0) => phase = "run"
    /\ (Did(OpEof) /\ pre.current_frame_index = 0) =>
          (phase = "exit" /\ outcome.status = "ok")

(***************************************************************************)
(* C19 *)
(***************************************************************************)
\* C19: `return e;` compiles the code of `e` before RETURN: the chunk of
\* `fun one() { 2; return 1; }` is CONSTANT 2, POP, CONSTANT 1, RETURN and
\* what ends a chunk.
C19_ReturnCompilesExpr ==
    (InputIs(ProgFunReturn) /\ phase = "compiled") =>
        LET one == compiler.function.chunk.constants[1]
        IN  /\ Len(one.chunk.code) >= 6
            /\ SubSeq(one.chunk.code, 1, 6)
                  = << OpConstant, 0, OpPop, OpConstant, 1, OpReturn >>
            /\ one.chunk.constants = << Number(2), Number(1) >>

(***************************************************************************)
(* C20 *)
(***************************************************************************)
\* C20: every runtime error stops the VM: the value stack is reset to empty,
\* the error is returned to the driver (which exits with code 70), and no
\* instruction is dispatched after the failing one, whose frames stay.
C20_RuntimeErrorStops ==
    outcome.status = "runtime_error" =>
        /\ phase = "exit"
        /\ vm.stack = <<>>
        /\ outcome.exit_code = 70
        /\ vm.frames = pre.frames \/ \E n \in 1..3 : vm.frames = FramesAfter(n)
        /\ ~ENABLED Next

\* `print u;` of ProgUndefined has stopped the VM before `print 2;`
C20_Witness ==
    /\ InputIs(ProgUndefined)
    /\ outcome.status = "runtime_error"
    /\ outcome.line = 2
    /\ vm.stack = <<>>
    /\ out = << "1" >>

(***************************************************************************)
(* C21 *)
(***************************************************************************)
\* the line the chunk answers for an offset, -1 when it has none
LineOf(chunk, offset) ==
    IF ChunkGetLineno(chunk, offset) = <<>> THEN -1
    ELSE ChunkGetLineno(chunk, offset)[1]

\* C21: line monotonicity.  In a chunk built by any sequence of writes, the
\* lines looked up for two offsets i <= j of the code satisfy
\* line(i) <= line(j), and the stored (offset, line) entries have strictly
\* increasing offsets and strictly increasing lines.
C21_LineMonotonicity ==
    LET chunk == compiler.function.chunk
        info == chunk.line_info
    IN  /\ \A i, j \in 0..(Count(chunk) - 1) :
              i <= j => LineOf(chunk, i) <= LineOf(chunk, j)
        /\ \A k \in 1..(Len(info) - 1) :
              info[k][1] < info[k + 1][1] /\ info[k][2] < info[k + 1][2]

\* a chunk written with a line that went down and up again: two entries are
\* stored for four writes
C21_Witness ==
    /\ phase = "write"
    /\ Len(ghost.writes) = 4
    /\ \E k \in 1..3 : ghost.writes[k + 1][2] < ghost.writes[k][2]
    /\ \E k \in 1..3 : ghost.writes[k + 1][2] > ghost.writes[k][2]
    /\ Len(compiler.function.chunk.line_info) = 2
    /\ LineOf(compiler.function.chunk, 0) < LineOf(compiler.function.chunk, 3)

(***************************************************************************)
(* C22 *)
(***************************************************************************)
\* the stored entries whose offset does not exceed `offset`
EntriesUpTo(chunk, offset) ==
    {k \in 1..Len(chunk.line_info) : chunk.line_info[k][1] <= offset}

\* C22: line lookup.  Asked for an offset of a non-empty chunk, or for an
\* offset past the last stored entry, get_lineno answers with a line, and the
\* line is the one of the stored entry with the greatest offset that does not
\* exceed the offset asked (the last entry's line past the last entry).
C22_LineLookup ==
    LET chunk == compiler.function.chunk
        info == chunk.line_info
    IN  /\ \A offset \in 0..Count(chunk) :
              Count(chunk) > 0 =>
                  /\ ChunkGetLineno(chunk, offset) # <<>>
                  /\ \E k \in EntriesUpTo(chunk, offset) :
                        /\ \A m \in EntriesUpTo(chunk, offset) : info[m][1] <= info[k][1]
                        /\ ChunkGetLineno(chunk, offset) = << info[k][2] >>
                  /\ offset > info[Len(info)][1] =>
                        ChunkGetLineno(chunk, offset) = << info[Len(info)][2] >>
        /\ (phase = "write" /\ ghost.lookup # <<>> /\ Count(chunk) > 0) =>
              ghost.lookup[2] = ChunkGetLineno(chunk, ghost.lookup[1])

\* a lookup between two stored entries answered with the first one's line
C22_Witness ==
    /\ phase = "write"
    /\ Len(compiler.function.chunk.line_info) = 2
    /\ ghost.lookup # <<>>
    /\ ghost.lookup[1] > 0
    /\ ghost.lookup[1] < compiler.function.chunk.line_info[2][1]
    /\ ghost.lookup[2] = << compiler.function.chunk.line_info[1][2] >>

(***************************************************************************)
(* C23 *)
(***************************************************************************)
\* the chunk the compiler produced for the script
Script == compiler.function.chunk

\* run() is about to dispatch in the chunk the compiler produced
Dispatching == phase = "run" /\ IsSource /\ HasFrame(vm)

JumpOps == {OpJump, OpJumpIfTrue, OpJumpIfFalse}

\* C23: jump bounds.  At every dispatch step of a chunk the compiler
\* produced, ip is within [0, code length), and after every JUMP,
\* JUMP_IF_TRUE, JUMP_IF_FALSE and LOOP the new ip is the offset of an opcode
\* byte of the chunk, never of an operand byte.
C23_JumpBounds ==
    Dispatching =>
        /\ CurrentIp \in 0..(Count(Script) - 1)
        /\ last.op \in JumpOps \cup {OpLoop} => CurrentIp \notin compiler.operands
(***************************************************************************)
(* C24 *)
(***************************************************************************)
\* the notes patch_jump left in the script's compiler: the jump at offset
\* `at`, patched when the chunk's count was `to`
JumpNotes == {n \in compiler.notes : n.k = "jump"}

\* the last instruction, a jump, was taken
Taken ==
    \/ last.op = OpJump
    \/ last.op = OpJumpIfFalse /\ IsFalsey(RightOperand)
    \/ last.op = OpJumpIfTrue /\ IsTruthy(RightOperand)

\* C24: forward-jump patching.  patch_jump(p) writes
\* distance = current_offset - (p + 2) big-endian into the placeholder bytes
\* at p and p + 1, and when the jump emit_jump emitted is taken at run time,
\* ip after the instruction is the code offset that was current when
\* patch_jump was called.
C24_PatchJump ==
    /\ IsSource =>
          \A n \in JumpNotes :
              Script.code[n.at + 2] * 256 + Script.code[n.at + 3] = n.to - (n.at + 1 + 2)
    /\ (Dispatching /\ last.op \in JumpOps /\ Taken) =>
          \E n \in JumpNotes : n.at = last.ip /\ CurrentIp = n.to
(***************************************************************************)
(* C25 *)
(***************************************************************************)
\* the notes emit_loop left: the LOOP at offset `at` back to `to`
LoopNotes == {n \in compiler.notes : n.k = "loop"}

\* the distance patch_jump or emit_loop computed for a note
Distance(n) == IF n.k = "loop" THEN n.at + 3 - n.to ELSE n.to - (n.at + 1 + 2)

\* the 16-bit operand the chunk holds for a note's instruction
ShortAt(chunk, at) == chunk.code[at + 2] * 256 + chunk.code[at + 3]

\* C25: a jump or loop distance that does not fit in 16 bits (greater than
\* 65535) makes compilation fail with a compile error, and the compiler never
\* emits a jump or loop operand that is the distance with its high bits
\* dropped.
C25_DistanceFits ==
    IsSource =>
        \A n \in JumpNotes \cup LoopNotes :
            /\ Distance(n) > 256 * 256 - 1 => compiler.status = "err"
            /\ Ok(compiler) => ShortAt(Script, n.at) = Distance(n)
(***************************************************************************)
(* C26 *)
(***************************************************************************)
\* the operands of the script's OP_CONSTANT instructions
ConstantOperands ==
    {Script.code[o + 1] : o \in {p \in compiler.operands : Script.code[p] = OpConstant}}

\* C26: constant pool limit.  add_constant returns the index of the value it
\* just added and that index is at most 255 (in a sum of n literals the
\* operands of the OP_CONSTANT instructions are the indexes 0..n-1, each of a
\* constant 0); an attempt to add a 257th constant to one chunk is reported
\* as a compilation error carrying line and message, and neither crashes nor
\* yields a wrapped index.
C26_ConstantPool ==
    /\ IsSource =>
          LET r == AddConstant(Script, Number(1))
          IN  r.fits => r.index <= 255 /\ r.chunk.constants[r.index + 1] = Number(1)
    /\ (input.fam = "sum_sized" /\ Ok(compiler) /\ todo = <<>>) =>
          /\ ConstantOperands = 0..(input.i - 1)
          /\ \A index \in ConstantOperands :
                index <= 255 /\ Script.constants[index + 1] = Number(0)
    /\ (input.fam = "sum_sized" /\ input.i > 256 /\ todo = <<>>) =>
          /\ phase = "exit"
          /\ outcome.status = "compile_error"
          /\ outcome.msg # ""
          /\ outcome.line = 1
(***************************************************************************)
(* C27 *)
(***************************************************************************)
\* the notes if_statement and while_statement left: the statement's code
\* begins at `from` with the condition, its JUMP_IF_FALSE is at `at`, and the
\* code after the statement begins at `to`
CondNotes == {n \in compiler.notes : n.k \in {"if", "while"}}

\* the opcode run() is about to read, -1 past the end of the code
NextOp == IF CurrentIp < Count(Script) THEN Script.code[CurrentIp + 1] ELSE -1

\* run() came to offset `to` from the code in from..(to - 1)
CameOutOf(from, to) ==
    Dispatching /\ CurrentIp = to /\ last.ip >= from /\ last.ip < to

\* C27: in the code emitted for `if` (with or without else) and for `while`
\* the condition value is popped exactly once on every path: whichever way
\* the JUMP_IF_FALSE of the statement goes, the next instruction is the POP
\* of the condition; and the stack depth after the statement equals the
\* depth before it.
C27_ConditionPopped ==
    \A n \in CondNotes :
        /\ (Dispatching /\ Ran(OpJumpIfFalse) /\ last.ip = n.at) =>
              /\ NextOp = OpPop
              /\ Len(vm.stack) = Len(pre.stack)
              /\ CurrentIp \in {n.at + 3} \cup {m.to : m \in JumpNotes}
        /\ CameOutOf(n.from, n.to) =>
              /\ n.from \in DOMAIN ghost.depth_at
              /\ Len(vm.stack) = ghost.depth_at[n.from]
(***************************************************************************)
(* C28 *)
(***************************************************************************)
\* C28: in the code emitted for `while`, executing the LOOP instruction sets
\* ip to loop_start, the offset of the first byte of the condition code
\* recorded before the condition was compiled: every LOOP belongs to a
\* `while` whose code begins at that offset, and the next dispatch is there.
C28_LoopStart ==
    (Dispatching /\ Ran(OpLoop)) =>
        \E n \in LoopNotes :
            /\ n.at = last.ip
            /\ CurrentIp = n.to
            /\ \E w \in CondNotes : w.k = "while" /\ w.from = n.to /\ w.at < n.at
(***************************************************************************)
(* C29 *)
(***************************************************************************)
\* the notes logical() left: the code of `a and b` / `a or b` begins at
\* `from`, its conditional jump is at `at`, and it ends before `to`
LogicalNotes == {n \in compiler.notes : n.k \in {"and", "or"}}

\* C29: short-circuit logic.  Executing the code of `a and b` leaves exactly
\* one value: the value of `a` when it is falsey, the code of `b` not being
\* executed (the jump goes to the end of the expression with the stack as it
\* was), and otherwise the value of `b` (the value of `a` is popped and the
\* code of `b` runs); `a or b` is symmetric with a truthy `a`.
C29_ShortCircuit ==
    \A n \in LogicalNotes :
        /\ (Dispatching /\ last.ip = n.at /\ last.op \in JumpOps) =>
              /\ last.op = IF n.k = "and" THEN OpJumpIfFalse ELSE OpJumpIfTrue
              /\ vm.stack = pre.stack
              /\ IF Taken THEN CurrentIp = n.to
                 ELSE CurrentIp = n.at + 3 /\ NextOp = OpPop
        /\ CameOutOf(n.from, n.to) =>
              /\ n.from \in DOMAIN ghost.depth_at
              /\ Len(vm.stack) = ghost.depth_at[n.from] + 1
(***************************************************************************)
(* C30 *)
(***************************************************************************)
\* the notes block() left: the block's code begins at `from`, the code block
\* exit emits is in at..(to - 1), and n locals of the block were deeper than
\* the scope depth restored at its exit
BlockNotes == {n \in compiler.notes : n.k = "block"}

\* C30: on block exit the compiler removes from its locals stack exactly the
\* locals whose depth exceeds the restored scope depth (none deeper than the
\* current scope is left between two declarations) and emits POP when that is
\* one local, POPN n when it is n > 1 locals, nothing when it is none;
\* therefore the run-time stack depth after a block equals the depth before
\* it.
C30_BlockExit ==
    /\ (IsSource /\ Ok(compiler)) =>
          /\ \A i \in DOMAIN compiler.locals :
                compiler.locals[i].depth <= compiler.scope_depth
          /\ \A b \in BlockNotes :
                CASE b.n = 0 -> b.to = b.at
                  [] b.n = 1 -> b.to = b.at + 1 /\ Script.code[b.at + 1] = OpPop
                  [] OTHER   -> /\ b.to = b.at + 2
                                /\ Script.code[b.at + 1] = OpPopN
                                /\ Script.code[b.at + 2] = b.n
    /\ \A b \in BlockNotes :
          CameOutOf(b.from, b.to) =>
              /\ b.from \in DOMAIN ghost.depth_at
              /\ Len(vm.stack) = ghost.depth_at[b.from]
(***************************************************************************)
(* C31 *)
(***************************************************************************)
\* the locals named as the used identifier, of the locals in scope at a use
Hits(u) == {i \in 1..Len(u.locals) : u.locals[i].name = u.name}

\* the last of them in the locals stack
LastHit(u) == CHOOSE i \in Hits(u) : \A j \in Hits(u) : j <= i

\* C31: variable resolution.  A use or assignment of identifier x compiles
\* to GET_LOCAL / SET_LOCAL if and only if some local named x is in scope at
\* that point, and then its operand is the index of the most recently
\* declared such local, which is the innermost one; otherwise it compiles to
\* GET_GLOBAL / SET_GLOBAL whose operand is the constant holding the lexeme
\* as a string.
C31_VariableResolution ==
    IsSource =>
        \A u \in compiler.uses :
            /\ u.at + 2 <= Count(Script)
            /\ IF Hits(u) # {}
               THEN /\ Script.code[u.at + 1] = IF u.set THEN OpSetLocal ELSE OpGetLocal
                    /\ Script.code[u.at + 2] = LastHit(u) - 1
                    /\ \A j \in Hits(u) : u.locals[j].depth <= u.locals[LastHit(u)].depth
               ELSE /\ Script.code[u.at + 1] = IF u.set THEN OpSetGlobal ELSE OpGetGlobal
                    /\ Script.code[u.at + 2] + 1 \in DOMAIN Script.constants
                    /\ Script.constants[Script.code[u.at + 2] + 1] = Str(u.name)
(***************************************************************************)
(* C32 *)
(***************************************************************************)
\* in ProgNest(n): block() has met the second `let a` and nothing after it
SecondLetMet == input.fam = "nest" /\ Len(todo) = input.i + 1

\* in ProgNest(n): block() has met `print a` and nothing after it
PrintMet == input.fam = "nest" /\ Len(todo) = input.i /\ phase = "nest"

\* C32: declaring a local whose name equals another local declared at the
\* same scope depth in the same block makes compilation fail with a compile
\* error, while declaring a local with the name of a local from an enclosing
\* (shallower) scope is accepted and shadows it: there are then two locals
\* of that name and a use of the name addresses the second.
C32_Redeclare ==
    /\ (SecondLetMet /\ input.i = 1) =>
          /\ phase = "exit"
          /\ outcome.status = "compile_error"
          /\ outcome.msg = "Already a variable with the name in this scope"
    /\ (SecondLetMet /\ input.i > 1) =>
          /\ phase = "nest"
          /\ Len(compiler.locals) = 2
          /\ \A i \in 1..2 : compiler.locals[i].name = "a"
          /\ compiler.locals[1].depth < compiler.locals[2].depth
    /\ (PrintMet /\ input.i > 1) =>
          /\ Script.code[Count(Script) - 2] = OpGetLocal
          /\ Script.code[Count(Script) - 1] = 1
          /\ Script.code[Count(Script)] = OpPrint
(***************************************************************************)
(* C33 *)
(***************************************************************************)
\* the top-level function declarations of a fixed program
FunDecls ==
    {Program(input)[k].decl : k \in {j \in DOMAIN Program(input) :
                                        Program(input)[j].decl.k = "FunDecl"}}

\* the Function constants of the script's chunk
Functions ==
    {Script.constants[i] : i \in {j \in DOMAIN Script.constants :
                                     Script.constants[j].t = "Function"}}

\* C33: compiling `fun f(p1, ..., pn) { body }` uses a sub-compiler in which
\* local slot 0 is reserved for the callee and each parameter pi is a local
\* at depth 1 occupying slot i, so a use of pi in the body compiles to
\* GET_LOCAL i (the body `print q;` of `fun f(p, q)` is GET_LOCAL 2, PRINT);
\* the emitted Function records arity n.
C33_FunParams ==
    (input.fam = "fixed" /\ phase = "compiled") =>
        /\ \A d \in FunDecls :
              \E fn \in Functions : fn.name = d.name /\ fn.arity = Len(d.params)
        /\ InputIs(ProgFunParams) =>
              \E fn \in Functions :
                  /\ fn.name = "f"
                  /\ SubSeq(fn.chunk.code, 1, 3) = << OpGetLocal, 2, OpPrint >>
(***************************************************************************)
(* C34 *)
(***************************************************************************)
\* the VM is as VM::new made it: no instruction has been dispatched
Fresh == phase = "run" /\ last = NoLast

\* C34: a freshly constructed VM has the name `clock` bound in its globals
\* map to a NativeFunction of arity 0, so GET_GLOBAL clock succeeds before
\* the program defines anything: `print clock;` prints the native function
\* and ends normally.
C34_ClockPredefined ==
    /\ Fresh =>
          /\ "clock" \in DOMAIN vm.globals
          /\ vm.globals["clock"].t = "NativeFunction"
          /\ vm.globals["clock"].arity = 0
    /\ (InputIs(ProgClock) /\ phase = "exit") =>
          /\ outcome.status = "ok"
          /\ out = << "<fn clock>" >>
(***************************************************************************)
(* C35 *)
(***************************************************************************)
\* C35: every run of a source text ends in exactly one of three outcomes:
\* exit status 65 when compiling reports an error, the VM then never being
\* started, exit status 70 when execution ends with a runtime error, and
\* normal completion with status 0 otherwise; no program the parser accepts
\* (`let x;`, a call expression) ends in any other way.
C35_ExitCodes ==
    (IsSource /\ phase = "exit") =>
        /\ outcome.status \in {"compile_error", "runtime_error", "ok"}
        /\ outcome.exit_code = CASE outcome.status = "compile_error" -> 65
                                  [] outcome.status = "runtime_error" -> 70
                                  [] OTHER                            -> 0
        /\ outcome.status = "compile_error" <=> vm = NoVM

\* the last call of scan_token met a quote at the start of a lexeme, so it
\* called string()
StringMet ==
    /\ phase \in {"scan", "scanned", "exit"}
    /\ ghost.scanned # NoScanner
    /\ PeekChar(ghost.scanned) = Quote

\* where the literal of StringMet opens and closes in the source (character
\* positions from 1; 0 when no quote closes it) and the newlines it spans
OpeningAt == ghost.scanned.current + 1

ClosingAt ==
    LET later == {j \in DOMAIN scanner.source :
                     j > OpeningAt /\ scanner.source[j] = Quote}
    IN  IF later = {} THEN 0 ELSE CHOOSE j \in later : \A i \in later : j <= i

SpannedNewlines ==
    Cardinality({n \in OpeningAt + 1 .. ClosingAt - 1 : scanner.source[n] = Newline})

\* C36: scanning a string literal that spans k newlines adds one Str token
\* whose line is the line where the literal began, and leaves the scanner's
\* line, which every later token carries, increased by k; after a string
\* that is not terminated, scan_tokens returns Err with an error
\* "Unterminated string." and no tokens.
C36_StringLines ==
    StringMet =>
        IF ClosingAt # 0
        THEN /\ scanner.status # "panic"
             /\ Len(scanner.tokens) =
                   Len(ghost.scanned.tokens) + (IF phase = "scanned" THEN 2 ELSE 1)
             /\ scanner.tokens[Len(ghost.scanned.tokens) + 1] =
                   Token(TokenType("Str", SubSeq(scanner.source, OpeningAt + 1,
                                                 ClosingAt - 1)),
                         SubSeq(scanner.source, OpeningAt, ClosingAt),
                         ghost.scanned.line)
             /\ scanner.line = ghost.scanned.line + SpannedNewlines
        ELSE /\ scanner.status # "panic"
             /\ \E i \in DOMAIN scanner.errors :
                   scanner.errors[i].message = "Unterminated string."
             /\ phase # "scanned"
             /\ phase = "exit" =>
                   scanner.status = "err" /\ outcome.status = "scan_error"

(***************************************************************************)
(* C37 *)
(***************************************************************************)
\* C37: JUMP_IF_TRUE and JUMP_IF_FALSE leave the value stack, the frame
\* stack (but for the ip of the running frame) and the globals as they were,
\* taken or not, and read both operand bytes in the same step: ip advances
\* by 3 when the jump is not taken and by 3 + offset when it is.
C37_ConditionalJumps ==
    (Ran(OpJumpIfTrue) \/ Ran(OpJumpIfFalse)) =>
        /\ vm.stack = pre.stack
        /\ vm.globals = pre.globals
        /\ vm.current_frame_index = pre.current_frame_index
        /\ vm.frames = FramesAfter(3 + IF Taken
                                        THEN ShortAt(GetChunk(pre)[1], last.ip)
                                        ELSE 0)

\* a JUMP_IF_TRUE that found a truthy value has jumped over some bytes
C37_Witness ==
    /\ Ran(OpJumpIfTrue)
    /\ IsTruthy(RightOperand)
    /\ ShortAt(GetChunk(pre)[1], last.ip) > 0
    /\ CurrentIp = last.ip + 3 + ShortAt(GetChunk(pre)[1], last.ip)
    /\ pre.stack # <<>>

\* a JUMP_IF_FALSE that found a truthy value has only stepped over its operand
C37_WitnessNotTaken ==
    /\ Ran(OpJumpIfFalse)
    /\ IsTruthy(RightOperand)
    /\ CurrentIp = last.ip + 3

(***************************************************************************)
(* C38 *)
(***************************************************************************)
\* C38: at every dispatch step of a compiled program, for every frame on the
\* frame stack the slot of the value stack at the frame's base index exists
\* and holds a Function, slot 0 holding the script function: no instruction
\* the compiler emitted has overwritten or popped it, and get_chunk can
\* resolve the running chunk.
C38_BaseSlot ==
    (phase = "run" /\ IsSource) =>
        /\ \A d \in 1..(vm.current_frame_index + 1) :
              /\ d \in DOMAIN vm.frames
              /\ vm.frames[d].slots_start_index + 1 \in DOMAIN vm.stack
              /\ vm.stack[vm.frames[d].slots_start_index + 1].t = "Function"
        /\ vm.stack # <<>>
        /\ vm.stack[1] = Function(compiler.function.name, compiler.function.arity,
                               Script)
        /\ GetChunk(vm) = << Script >>

(***************************************************************************)
(* C39 *)
(***************************************************************************)
\* the compiled program has no while or for loop: emit_loop was never called
\* (a call expression is not accepted by the compiler at all)
LoopFree == IsSource /\ LoopNotes = {}

\* C39: a compiled program without loops and calls terminates: every
\* instruction leaves ip greater than it found it, and the run ends at the
\* final EOF (Ok) or with a runtime error, never otherwise.
C39_LoopFreeTerminates ==
    LoopFree =>
        /\ (phase = "run" /\ last.op # -1) =>
               HasFrame(vm) /\ CurrentIp > last.ip
        /\ (phase = "exit" /\ vm # NoVM) =>
               /\ outcome.status \in {"ok", "runtime_error"}
               /\ outcome.status = "ok" =>
                     last.op = OpEof /\ last.ip = Count(Script) - 1

(***************************************************************************)
(* C40 *)
(***************************************************************************)
\* the compiler is between two steps, with nothing failed
Compiling == phase \in {"compile", "compiled", "nest"} /\ Ok(compiler)

\* no block is open: a top-level declaration has been compiled, or none yet
AtTopLevel == IF phase = "nest" THEN ghost.nest = 0 ELSE TRUE

\* C40: after every top-level declaration that compiled, the locals are empty
\* and the scope depth is 0; inside blocks the locals are in order of
\* nondecreasing depth and none is deeper than the current scope depth.
C40_ScopeDiscipline ==
    Compiling =>
        /\ AtTopLevel => compiler.locals = <<>> /\ compiler.scope_depth = 0
        /\ \A i, j \in DOMAIN compiler.locals :
              i <= j => compiler.locals[i].depth <= compiler.locals[j].depth
        /\ \A i \in DOMAIN compiler.locals :
              compiler.locals[i].depth <= compiler.scope_depth

====
